---- MODULE Spec2Model ----
(***************************************************************************)
(* State-machine model of the NetworkManager of the VAGUE online           *)
(* multiplayer game (js/net.js) and of the signalling helpers it uses      *)
(* (js/utils.js).  One NetworkManager instance is modelled; isHost says    *)
(* which of the two roles the application gave it.                         *)
(*                                                                         *)
(* The browser's WebRTC objects are the environment.  An RTCPeerConnection *)
(* is its iceConnectionState, an RTCDataChannel its readyState; the events *)
(* the browser raises on them are actions, each running the handler that   *)
(* net.js installed for it.                                                *)
(***************************************************************************)
EXTENDS Integers, Sequences, FiniteSets, TLC

\* Number of peer ids, and of createOffer() calls under SpecBroadcast.
MaxPeers == 3

\* Number of createOffer() calls under Spec.
MaxOffers == 2

\* Number of createOffer() calls under SpecLoops.
MaxLoopPeers == 1

\* Number of createOffer() calls under SpecMsg.
MaxMsgPeers == 1

\* Number of createOffer() calls under SpecHello.
MaxHelloPeers == 2
MaxSyncPeers == 2

\* Number of createOffer() calls under SpecGather.
MaxGatherPeers == 2

\* Number of players on the setup screen, of games started in one session
\* under SpecWords and under SpecLocal, of rounds of one game, and of seconds
\* the stopwatch is followed.
MaxPlayers == 3
MaxGames == 3
MaxLocalGames == 1

\* Number of joiners in the host's lobby.
MaxLobbyPeers == 2
MaxRounds == 2
MaxSeconds == 1

\* Length of the strings checksum() is called with under SpecChecksum.
MaxStrLen == 5

\* Length of the sdp of the descriptors encodeSDP() is called with.
MaxSdpLen == 3

\* Number of 'disconnected from host' notifications followed on the joiner.
MaxNotify == 3

\* null, as the value of pendingPeerId and of a descriptor that is not set.
NoPeer == 0

Ids == 1..MaxPeers

\* The display names players enter; the host's own name is read nowhere in
\* net.js, so one value stands for it.
Names == {"ann", "bob"}
HostName == "hal"

\* The readings of Date.now() that are followed, in order.
Times == <<1000, 1042>>

VARIABLES
    isHost,         \* this.isHost
    localName,      \* this.localName
    closed,         \* this._closed
    peers,          \* this.peers: the keys of the Map, in insertion order
    pendingPeerId,  \* this.pendingPeerId
    nextId,         \* how many peer ids generateId() has handed out
    offerPc,        \* per id: where its createOffer() call stands
    pcIce,          \* per id: iceConnectionState of the RTCPeerConnection
    chState,        \* per id: readyState of the RTCDataChannel
    remote,         \* per id: the offer the applied remote answer was made for
    notified,       \* per id: how often onPeerDisconnected(id) was called
    pingTimer,      \* this._pingTimer holds a handle
    syncTimer,      \* this._syncTimer holds a handle
    pingLive,       \* number of live setInterval timers of the ping loop
    syncLive,       \* number of live setInterval timers of the sync loop
    hostPc,         \* this.hostPc holds a connection
    hostChannel,    \* this.hostChannel holds a channel
    answerPc,       \* where the createAnswer() call stands
    hostIce,        \* joiner: iceConnectionState of the connection to the host
    hostCh,         \* joiner: readyState of the channel to the host
    hostNotified,   \* joiner: how often onPeerDisconnected('host') was called
    errors,         \* joiner: how often onError was called
    lastOp,         \* the method or handler that ran last, and how it ended
    out,            \* the frames that method or handler sent
    calls,          \* the collaborator callbacks the message router made in it
    now,            \* the reading of Date.now()
    latency,        \* this._latency: per key <<>> (no entry) or <<ms>>
    peerName,       \* per id: the name field of the peer's record
    state,          \* the application's game state (state.js)
    screen,         \* the key of the screen that is shown (render.js)
    el,             \* which of the buttons render.js shows and hides are shown
    call,           \* the function called last: its name, argument and result
    chosen,         \* the words the games of this session were started with
    started,        \* the host of the session has started the game
    wait            \* per connection: the candidate-gathering wait of its call

regVars   == <<peers, pendingPeerId>>
offerVars == <<nextId, offerPc>>
connVars  == <<pcIce, chState, remote>>
timerVars == <<pingTimer, syncTimer, pingLive, syncLive>>
joinVars  == <<hostPc, hostChannel, answerPc, hostIce, hostCh>>
cbVars    == <<notified, hostNotified, errors>>
msgVars   == <<localName, now, latency, peerName, state>>
appVars   == <<screen, el, call, chosen, started, wait>>
netVars == <<isHost, closed, regVars, offerVars, connVars, timerVars, joinVars, cbVars,
             localName, now, latency, peerName>>
vars == <<isHost, localName, closed, regVars, offerVars, connVars, timerVars, joinVars,
          cbVars, lastOp, out, calls, msgVars, appVars>>

Range(s) == {s[i] : i \in 1..Len(s)}

Op(name, err) == [name |-> name, err |-> err]

(***************************************************************************)
(* Signalling codec (utils.js).  A token is what atob and JSON.parse make  *)
(* of it: whether it is base64 text, whether the decoded text is JSON, and *)
(* the JSON value.  A descriptor is {type, sdp}; the sdp of an offer names *)
(* the connection it was created on, the sdp of an answer the offer it     *)
(* answers.                                                                *)
(***************************************************************************)
Desc(type, sdp) == [shape |-> "desc", type |-> type, sdp |-> sdp]
JsonNumber      == [shape |-> "number", type |-> "", sdp |-> NoPeer]
JsonObject      == [shape |-> "object", type |-> "", sdp |-> NoPeer]

Token(b64, json, val) == [b64 |-> b64, json |-> json, val |-> val]

encodeSDP(desc) == Token(TRUE, TRUE, Desc(desc.type, desc.sdp))

decodeSDP(tok) ==
    IF ~tok.b64 THEN [threw |-> TRUE, val |-> JsonNumber]
    ELSE IF ~tok.json THEN [threw |-> TRUE, val |-> JsonNumber]
    ELSE [threw |-> FALSE, val |-> tok.val]

\* Text that is no base64, base64 of text that is no JSON, and base64 of JSON
\* that is no descriptor.
BadTokens ==
    { Token(FALSE, FALSE, JsonNumber),
      Token(TRUE, FALSE, JsonNumber),
      Token(TRUE, TRUE, JsonNumber),
      Token(TRUE, TRUE, JsonObject) }

\* The answer codes a joiner can have produced: one per invite code handed out.
AnswerTokens ==
    { encodeSDP(Desc("answer", q)) : q \in {i \in Ids : offerPc[i] = "returned"} }

OfferTokens == { encodeSDP(Desc("offer", q)) : q \in Ids }

(***************************************************************************)
(* The signalling codec on texts.  A text is the sequence of its code      *)
(* units; encodeSDP is btoa(unescape(encodeURIComponent(JSON.stringify(    *)
(* {type, sdp})))), decodeSDP is JSON.parse(decodeURIComponent(escape(     *)
(* atob(encoded)))).  A function that can throw returns [threw, val].      *)
(***************************************************************************)
Returned(val) == [threw |-> FALSE, val |-> val]

\* A JSON value: a string, a number, an array, an object or a literal.  The
\* items of an array and the members of an object are [key, val] pairs, the
\* key of an item being empty.
JsonVal(kind, str, num, items) ==
    [kind |-> kind, str |-> str, num |-> num, items |-> items]

JNull == JsonVal("null", <<>>, 0, <<>>)

JString(str) == JsonVal("string", str, 0, <<>>)

Pair(key, val) == [key |-> key, val |-> val]

Threw == [threw |-> TRUE, val |-> JNull]

TypeKey == <<116, 121, 112, 101>>
SdpKey == <<115, 100, 112>>

\* The object {type, sdp}.
DescObject(type, sdp) ==
    JsonVal("object", <<>>, 0,
            <<Pair(TypeKey, JString(type)), Pair(SdpKey, JString(sdp))>>)

\* The digit of a \u00XX escape.
HexCode(n) == IF n < 10 THEN 48 + n ELSE 87 + n

\* One character of a string as JSON.stringify writes it.
JsonEscape(c) ==
    IF c = 34 \/ c = 92 THEN <<92, c>>
    ELSE IF c = 8 THEN <<92, 98>>
    ELSE IF c = 9 THEN <<92, 116>>
    ELSE IF c = 10 THEN <<92, 110>>
    ELSE IF c = 12 THEN <<92, 102>>
    ELSE IF c = 13 THEN <<92, 114>>
    ELSE IF c < 32 THEN <<92, 117, 48, 48, HexCode(c \div 16), HexCode(c % 16)>>
    ELSE <<c>>

RECURSIVE JsonEscapeAll(_)
JsonEscapeAll(str) ==
    IF str = <<>> THEN <<>> ELSE JsonEscape(Head(str)) \o JsonEscapeAll(Tail(str))

JsonQuote(str) == <<34>> \o JsonEscapeAll(str) \o <<34>>

\* JSON.stringify({type: desc.type, sdp: desc.sdp})
StringifyDesc(desc) ==
    <<123>> \o JsonQuote(TypeKey) \o <<58>> \o JsonQuote(desc.type) \o <<44>>
    \o JsonQuote(SdpKey) \o <<58>> \o JsonQuote(desc.sdp) \o <<125>>

\* unescape(encodeURIComponent(str)): the UTF-8 bytes of str (no surrogates).
Utf8Char(c) ==
    IF c < 128 THEN <<c>>
    ELSE IF c < 2048 THEN <<192 + (c \div 64), 128 + (c % 64)>>
    ELSE <<224 + (c \div 4096), 128 + ((c \div 64) % 64), 128 + (c % 64)>>

RECURSIVE Utf8(_)
Utf8(str) == IF str = <<>> THEN <<>> ELSE Utf8Char(Head(str)) \o Utf8(Tail(str))

\* decodeURIComponent(escape(bytes)): the text the bytes are the UTF-8 of; a
\* URIError on bytes that are no UTF-8.
RECURSIVE Utf8Decode(_, _)
Utf8Decode(b, i) ==
    IF i > Len(b) THEN [threw |-> FALSE, val |-> <<>>]
    ELSE LET n == IF b[i] < 128 THEN 1
                  ELSE IF b[i] \in 194..223 THEN 2
                  ELSE IF b[i] \in 224..239 THEN 3
                  ELSE 0
         IN  IF n = 0 \/ i + n - 1 > Len(b) THEN [threw |-> TRUE, val |-> <<>>]
             ELSE IF \E k \in 1..(n - 1) : b[i + k] \notin 128..191
             THEN [threw |-> TRUE, val |-> <<>>]
             ELSE LET c == IF n = 1 THEN b[i]
                           ELSE IF n = 2 THEN (b[i] - 192) * 64 + (b[i + 1] - 128)
                           ELSE (b[i] - 224) * 4096 + (b[i + 1] - 128) * 64
                                + (b[i + 2] - 128)
                      rest == Utf8Decode(b, i + n)
                  IN  IF (n = 3 /\ c < 2048) \/ c \in 55296..57343 \/ rest.threw
                      THEN [threw |-> TRUE, val |-> <<>>]
                      ELSE [threw |-> FALSE, val |-> <<c>> \o rest.val]

\* The base64 alphabet: A-Z, a-z, 0-9, + and /; = pads.
B64Alphabet ==
    [n \in 1..64 |->
        IF n <= 26 THEN 64 + n
        ELSE IF n <= 52 THEN 70 + n
        ELSE IF n <= 62 THEN n - 5
        ELSE IF n = 63 THEN 43 ELSE 47]

B64Char(v) == B64Alphabet[v + 1]

B64Value(c) == (CHOOSE n \in 1..64 : B64Alphabet[n] = c) - 1

B64Pad == 61

\* Mutant of btoa: the last group of one byte loses its low two bits.
RECURSIVE btoaShortTail(_)
btoaShortTail(b) ==
    IF b = <<>> THEN <<>>
    ELSE IF Len(b) = 1
    THEN <<B64Char(b[1] \div 4), B64Char(0), B64Pad, B64Pad>>
    ELSE IF Len(b) = 2
    THEN <<B64Char(b[1] \div 4), B64Char((b[1] % 4) * 16 + (b[2] \div 16)),
           B64Char((b[2] % 16) * 4), B64Pad>>
    ELSE <<B64Char(b[1] \div 4), B64Char((b[1] % 4) * 16 + (b[2] \div 16)),
           B64Char((b[2] % 16) * 4 + (b[3] \div 64)), B64Char(b[3] % 64)>>
         \o btoaShortTail(SubSeq(b, 4, Len(b)))

\* btoa(bytes): three bytes make four characters.
RECURSIVE btoa(_)
btoa(b) ==
    IF b = <<>> THEN <<>>
    ELSE IF Len(b) = 1
    THEN <<B64Char(b[1] \div 4), B64Char((b[1] % 4) * 16), B64Pad, B64Pad>>
    ELSE IF Len(b) = 2
    THEN <<B64Char(b[1] \div 4), B64Char((b[1] % 4) * 16 + (b[2] \div 16)),
           B64Char((b[2] % 16) * 4), B64Pad>>
    ELSE <<B64Char(b[1] \div 4), B64Char((b[1] % 4) * 16 + (b[2] \div 16)),
           B64Char((b[2] % 16) * 4 + (b[3] \div 64)), B64Char(b[3] % 64)>>
         \o btoa(SubSeq(b, 4, Len(b)))

RECURSIVE B64Decode(_)
B64Decode(s) ==
    IF Len(s) < 2 THEN <<>>
    ELSE LET b1 == B64Value(s[1]) * 4 + (B64Value(s[2]) \div 16)
         IN  IF Len(s) = 2 THEN <<b1>>
             ELSE LET b2 == (B64Value(s[2]) % 16) * 16 + (B64Value(s[3]) \div 4)
                  IN  IF Len(s) = 3 THEN <<b1, b2>>
                      ELSE <<b1, b2, (B64Value(s[3]) % 4) * 64 + B64Value(s[4])>>
                           \o B64Decode(SubSeq(s, 5, Len(s)))

\* atob(text): the padding of a text whose length is a multiple of four is
\* dropped; what is left must be of the alphabet and not one character more
\* than a multiple of four, else atob throws.
atob(text) ==
    LET n == Len(text)
        pads == IF n % 4 = 0 /\ n > 0 /\ text[n] = B64Pad
                THEN IF text[n - 1] = B64Pad THEN 2 ELSE 1
                ELSE 0
        s == SubSeq(text, 1, n - pads)
    IN  IF Len(s) % 4 = 1 \/ \E i \in 1..Len(s) : s[i] \notin Range(B64Alphabet)
        THEN [threw |-> TRUE, val |-> <<>>]
        ELSE [threw |-> FALSE, val |-> B64Decode(s)]

\* JSON.parse.  A parse step returns [ok, val, next]: whether a value was
\* read at position i, the value, and the position after it.  Texts have no
\* white space between their tokens.
NoParse == [ok |-> FALSE, val |-> JNull, next |-> 0]

HexValue(c) ==
    IF c \in 48..57 THEN c - 48
    ELSE IF c \in 97..102 THEN c - 87
    ELSE IF c \in 65..70 THEN c - 55
    ELSE -1

\* The characters of a string from position i to its closing quote.
RECURSIVE StringBody(_, _)
StringBody(t, i) ==
    LET Then(c, k) ==
            LET r == StringBody(t, k)
            IN  IF r.ok THEN [r EXCEPT !.val = <<c>> \o @] ELSE r
        NoString == [ok |-> FALSE, val |-> <<>>, next |-> 0]
    IN  IF i > Len(t) \/ t[i] < 32 THEN NoString
        ELSE IF t[i] = 34 THEN [ok |-> TRUE, val |-> <<>>, next |-> i + 1]
        ELSE IF t[i] # 92 THEN Then(t[i], i + 1)
        ELSE IF i + 1 > Len(t) THEN NoString
        ELSE IF t[i + 1] \in {34, 92, 47} THEN Then(t[i + 1], i + 2)
        ELSE IF t[i + 1] = 98 THEN Then(8, i + 2)
        ELSE IF t[i + 1] = 116 THEN Then(9, i + 2)
        ELSE IF t[i + 1] = 110 THEN Then(10, i + 2)
        ELSE IF t[i + 1] = 102 THEN Then(12, i + 2)
        ELSE IF t[i + 1] = 114 THEN Then(13, i + 2)
        ELSE IF /\ t[i + 1] = 117 /\ i + 5 <= Len(t)
                /\ \A k \in 2..5 : HexValue(t[i + k]) >= 0
        THEN Then(HexValue(t[i + 2]) * 4096 + HexValue(t[i + 3]) * 256
                  + HexValue(t[i + 4]) * 16 + HexValue(t[i + 5]), i + 6)
        ELSE NoString

\* The digits of a number from position i on (integers without a sign).
RECURSIVE NumberEnd(_, _)
NumberEnd(t, i) == IF i <= Len(t) /\ t[i] \in 48..57 THEN NumberEnd(t, i + 1) ELSE i

RECURSIVE NumberValue(_, _, _)
NumberValue(t, i, j) ==
    IF i >= j THEN 0 ELSE NumberValue(t, i, j - 1) * 10 + (t[j - 1] - 48)

Literal(t, i, word) ==
    /\ i + Len(word) - 1 <= Len(t)
    /\ SubSeq(t, i, i + Len(word) - 1) = word

RECURSIVE ParseValue(_, _)
RECURSIVE ParseItems(_, _)
RECURSIVE ParseMembers(_, _)

\* The items of an array from position i to its closing bracket.
ParseItems(t, i) ==
    LET v == ParseValue(t, i)
    IN  IF ~v.ok \/ v.next > Len(t) THEN [ok |-> FALSE, val |-> <<>>, next |-> 0]
        ELSE IF t[v.next] = 93
        THEN [ok |-> TRUE, val |-> <<Pair(<<>>, v.val)>>, next |-> v.next + 1]
        ELSE IF t[v.next] = 44
        THEN LET r == ParseItems(t, v.next + 1)
             IN  IF r.ok THEN [r EXCEPT !.val = <<Pair(<<>>, v.val)>> \o @] ELSE r
        ELSE [ok |-> FALSE, val |-> <<>>, next |-> 0]

\* The members of an object from position i to its closing brace.
ParseMembers(t, i) ==
    LET NoMembers == [ok |-> FALSE, val |-> <<>>, next |-> 0]
        k == IF i <= Len(t) /\ t[i] = 34 THEN StringBody(t, i + 1)
             ELSE [ok |-> FALSE, val |-> <<>>, next |-> 0]
    IN  IF ~k.ok \/ k.next > Len(t) \/ t[k.next] # 58 THEN NoMembers
        ELSE LET v == ParseValue(t, k.next + 1)
             IN  IF ~v.ok \/ v.next > Len(t) THEN NoMembers
                 ELSE IF t[v.next] = 125
                 THEN [ok |-> TRUE, val |-> <<Pair(k.val, v.val)>>, next |-> v.next + 1]
                 ELSE IF t[v.next] = 44
                 THEN LET r == ParseMembers(t, v.next + 1)
                      IN  IF r.ok THEN [r EXCEPT !.val = <<Pair(k.val, v.val)>> \o @]
                          ELSE r
                 ELSE NoMembers

ParseValue(t, i) ==
    IF i > Len(t) THEN NoParse
    ELSE IF t[i] = 34
    THEN LET r == StringBody(t, i + 1)
         IN  IF r.ok THEN [ok |-> TRUE, val |-> JString(r.val), next |-> r.next]
             ELSE NoParse
    ELSE IF t[i] \in 48..57
    THEN LET j == NumberEnd(t, i)
         IN  IF t[i] = 48 /\ j > i + 1 THEN NoParse
             ELSE [ok |-> TRUE, next |-> j,
                   val |-> JsonVal("number", <<>>, NumberValue(t, i, j), <<>>)]
    ELSE IF t[i] = 91
    THEN IF i + 1 <= Len(t) /\ t[i + 1] = 93
         THEN [ok |-> TRUE, val |-> JsonVal("array", <<>>, 0, <<>>), next |-> i + 2]
         ELSE LET r == ParseItems(t, i + 1)
              IN  IF r.ok
                  THEN [ok |-> TRUE, val |-> JsonVal("array", <<>>, 0, r.val),
                        next |-> r.next]
                  ELSE NoParse
    ELSE IF t[i] = 123
    THEN IF i + 1 <= Len(t) /\ t[i + 1] = 125
         THEN [ok |-> TRUE, val |-> JsonVal("object", <<>>, 0, <<>>), next |-> i + 2]
         ELSE LET r == ParseMembers(t, i + 1)
              IN  IF r.ok
                  THEN [ok |-> TRUE, val |-> JsonVal("object", <<>>, 0, r.val),
                        next |-> r.next]
                  ELSE NoParse
    ELSE IF Literal(t, i, <<110, 117, 108, 108>>)
    THEN [ok |-> TRUE, val |-> JNull, next |-> i + 4]
    ELSE IF Literal(t, i, <<116, 114, 117, 101>>)
    THEN [ok |-> TRUE, val |-> JsonVal("true", <<>>, 0, <<>>), next |-> i + 4]
    ELSE IF Literal(t, i, <<102, 97, 108, 115, 101>>)
    THEN [ok |-> TRUE, val |-> JsonVal("false", <<>>, 0, <<>>), next |-> i + 5]
    ELSE NoParse

\* JSON.parse(text): the value the whole text is, or a SyntaxError.
JsonParse(text) ==
    LET r == ParseValue(text, 1)
    IN  IF r.ok /\ r.next = Len(text) + 1 THEN Returned(r.val) ELSE Threw

encodeSDPText(desc) == btoa(Utf8(StringifyDesc(desc)))

decodeSDPText(encoded) ==
    LET a == atob(encoded)
        u == Utf8Decode(a.val, 1)
    IN  IF a.threw \/ u.threw THEN Threw ELSE JsonParse(u.val)

(***************************************************************************)
(* The Map of peer records, and sending on a channel.                      *)
(***************************************************************************)
MapHas(m, k) == k \in Range(m)

MapSet(m, k) == IF MapHas(m, k) THEN m ELSE Append(m, k)

MapDelete(m, k) == SelectSeq(m, LAMBDA x : x # k)

\* ch.close(): a channel that is connecting or open starts closing.
ChannelCloseCall(st) == IF st \in {"connecting", "open"} THEN "closing" ELSE st

\* pc.close(): the connection is closed, whatever it was.
PcCloseCall(st) == IF st = "none" THEN "none" ELSE "closed"

(***************************************************************************)
(* Messages.  A message is the object handed to JSON.stringify, and what   *)
(* JSON.parse makes of a frame that carries one: a field that is absent is *)
(* the empty string, NoPeer, 0 or the empty sequence.                      *)
(***************************************************************************)
PROTOCOL_VERSION == 1

Message(type) ==
    [type |-> type, ts |-> <<>>, name |-> "", peerId |-> NoPeer, version |-> 0,
     phase |-> "", state |-> <<>>, checksum |-> <<>>,
     players |-> <<>>, category |-> "", role |-> <<>>]

\* A message on its way to a peer (to = NoPeer: to the host).
Frame(to, msg) ==
    [to |-> to, type |-> msg.type, ts |-> msg.ts, name |-> msg.name,
     peerId |-> msg.peerId, version |-> msg.version, phase |-> msg.phase,
     state |-> msg.state, checksum |-> msg.checksum, players |-> msg.players,
     category |-> msg.category, role |-> msg.role]

\* Mutant of SendGuard: the send is skipped only on a closed channel.
SendGuardNotClosed(st) == st # "closed"

\* The guard of every send: readyState === 'open'.
SendGuard(st) == st = "open"

\* Mutant of sendToPeerFrames: the channel's readyState is not looked at.
sendToPeerFramesAnyState(peerId, msg) ==
    IF MapHas(peers, peerId) THEN <<Frame(peerId, msg)>> ELSE <<>>

sendToPeerFrames(peerId, msg) ==
    IF MapHas(peers, peerId) /\ SendGuard(chState[peerId])
    THEN <<Frame(peerId, msg)>> ELSE <<>>

RECURSIVE broadcastFrames(_, _)
broadcastFrames(ps, msg) ==
    IF ps = <<>> THEN <<>>
    ELSE (IF SendGuard(chState[Head(ps)]) THEN <<Frame(Head(ps), msg)>> ELSE <<>>)
         \o broadcastFrames(Tail(ps), msg)

sendToHostFrames(msg) ==
    IF hostChannel /\ SendGuard(hostCh) THEN <<Frame(NoPeer, msg)>> ELSE <<>>

(***************************************************************************)
(* The application's game state (state.js).  null is the empty string;     *)
(* currentWord is the word of the entry, whose hint is Hint(word).         *)
(***************************************************************************)
InitialState ==
    [players |-> <<>>, category |-> "household", currentPhase |-> "MENU",
     round |-> 1, currentPlayerIndex |-> 0, cluePlayerIndex |-> 0,
     startingPlayerIndex |-> -1, timerSeconds |-> 0, timerRunning |-> FALSE,
     localIsImposter |-> FALSE, localWord |-> "", localHint |-> "",
     mode |-> "local", currentWord |-> "", imposterIndex |-> -1,
     isRoleRevealed |-> FALSE, usedWords |-> <<>>, localPlayerName |-> "",
     isHost |-> FALSE, onlinePeers |-> <<>>, hostReady |-> FALSE]

serialiseForSync(st) ==
    [players |-> st.players, category |-> st.category,
     currentPhase |-> st.currentPhase, round |-> st.round,
     currentPlayerIndex |-> st.currentPlayerIndex,
     cluePlayerIndex |-> st.cluePlayerIndex,
     startingPlayerIndex |-> st.startingPlayerIndex,
     timerSeconds |-> st.timerSeconds, timerRunning |-> st.timerRunning]

\* Mutant of applyHostState: the timer fields are not taken over.
applyHostStateNoTimer(st, s) ==
    [st EXCEPT !.players = s.players, !.category = s.category,
               !.currentPhase = s.currentPhase, !.round = s.round,
               !.currentPlayerIndex = s.currentPlayerIndex,
               !.cluePlayerIndex = s.cluePlayerIndex,
               !.startingPlayerIndex = s.startingPlayerIndex]

\* applyHostState(s) of state.js.
applyHostState(st, s) ==
    [st EXCEPT !.players = s.players, !.category = s.category,
               !.currentPhase = s.currentPhase, !.round = s.round,
               !.currentPlayerIndex = s.currentPlayerIndex,
               !.cluePlayerIndex = s.cluePlayerIndex,
               !.startingPlayerIndex = s.startingPlayerIndex,
               !.timerSeconds = s.timerSeconds,
               !.timerRunning = s.timerRunning]

resetRoundState(st) ==
    [st EXCEPT !.currentWord = "", !.imposterIndex = -1,
               !.currentPlayerIndex = 0, !.isRoleRevealed = FALSE,
               !.currentPhase = "MENU",
               !.cluePlayerIndex = 0, !.startingPlayerIndex = -1, !.round = 1,
               !.usedWords = <<>>,
               !.timerSeconds = 0, !.timerRunning = FALSE]

fullReset(st) ==
    [resetRoundState(st) EXCEPT !.players = <<>>, !.mode = "local",
                                !.localPlayerName = "", !.isHost = FALSE,
                                !.onlinePeers = <<>>, !.localIsImposter = FALSE,
                                !.localWord = "", !.localHint = "",
                                !.hostReady = FALSE]

\* The keys of the word database that are followed.
Categories == {"household", "food", "animals"}

setCategory(st, cat) == IF cat \in Categories THEN [st EXCEPT !.category = cat] ELSE st

applyRoleAssignment(st, data) ==
    [st EXCEPT !.localIsImposter = data.isImposter, !.localWord = data.word,
               !.localHint = data.hint, !.isRoleRevealed = FALSE]

(***************************************************************************)
(* The game flow of state.js.  A function that changes the state and       *)
(* returns a value is two operators: the state it leaves, and its result.  *)
(* The values of Math.random() are parameters.                             *)
(***************************************************************************)
\* String.prototype.trim and toLowerCase on the names that are followed.
trim(str) ==
    IF str \in {" ", "  "} THEN ""
    ELSE IF str = " ann" THEN "ann"
    ELSE IF str = "bob " THEN "bob"
    ELSE str

toLowerCase(str) ==
    IF str = "Ann" THEN "ann"
    ELSE IF str = "BOB" THEN "bob"
    ELSE IF str = "Hal" THEN "hal"
    ELSE str

\* The word database (data/words.js): per category its words in order, and
\* the hint of each word.
WordDatabase ==
    [c \in Categories |->
        IF c = "household" THEN <<"spoon", "lamp">>
        ELSE IF c = "food" THEN <<"apple", "bread">>
        ELSE <<"horse">>]

Hint(word) ==
    IF word = "spoon" THEN "kitchen"
    ELSE IF word = "lamp" THEN "light"
    ELSE IF word = "apple" THEN "fruit"
    ELSE IF word = "bread" THEN "bakery"
    ELSE "farm"

\* addPlayer(name): its error (null is ""), and the state it leaves.
addPlayerError(st, str) ==
    IF trim(str) = "" THEN "Name cannot be empty."
    ELSE IF \E i \in 1..Len(st.players) :
                toLowerCase(st.players[i]) = toLowerCase(trim(str))
    THEN "That name is already taken."
    ELSE ""

addPlayer(st, str) ==
    IF addPlayerError(st, str) = ""
    THEN [st EXCEPT !.players = Append(@, trim(str))]
    ELSE st

\* names.forEach(n => addPlayer(n))
RECURSIVE addPlayers(_, _)
addPlayers(st, strs) ==
    IF strs = <<>> THEN st ELSE addPlayers(addPlayer(st, Head(strs)), Tail(strs))

\* removePlayer(idx), idx counted from 0.
removePlayer(st, idx) ==
    IF idx >= 0 /\ idx < Len(st.players)
    THEN [st EXCEPT !.players = SubSeq(@, 1, idx) \o SubSeq(@, idx + 2, Len(@))]
    ELSE st

setMode(st, mode) == [st EXCEPT !.mode = mode]

setLocalPlayerName(st, str) == [st EXCEPT !.localPlayerName = trim(str)]

setIsHost(st, v) == [st EXCEPT !.isHost = v]

addOnlinePeer(st, id, str) ==
    IF \E i \in 1..Len(st.onlinePeers) : st.onlinePeers[i].id = id
    THEN st
    ELSE [st EXCEPT !.onlinePeers = Append(@, [id |-> id, name |-> str, ready |-> FALSE])]

removeOnlinePeer(st, id) ==
    [st EXCEPT !.onlinePeers = SelectSeq(@, LAMBDA q : q.id # id)]

setOnlinePeerReady(st, id) ==
    [st EXCEPT !.onlinePeers =
        [i \in 1..Len(@) |-> IF @[i].id = id THEN [@[i] EXCEPT !.ready = TRUE] ELSE @[i]]]

resetOnlinePeerReady(st) ==
    [st EXCEPT !.onlinePeers = [i \in 1..Len(@) |-> [@[i] EXCEPT !.ready = FALSE]]]

getOnlinePlayerNames(st) ==
    (IF st.localPlayerName # "" THEN <<st.localPlayerName>> ELSE <<>>)
        \o [i \in 1..Len(st.onlinePeers) |-> st.onlinePeers[i].name]

\* pool.filter(w => !state.usedWords.includes(w.word)), and the pool itself
\* when the filter leaves nothing.
Available(st) ==
    LET pool == WordDatabase[st.category]
        left == {w \in Range(pool) : w \notin Range(st.usedWords)}
    IN  IF left = {} THEN Range(pool) ELSE left

\* startRound() with the word and the imposter that Math.random() chooses.
startRound(st, word, imp) ==
    LET left == {w \in Range(WordDatabase[st.category]) : w \notin Range(st.usedWords)}
        used == IF left = {} THEN <<>> ELSE st.usedWords
    IN  [st EXCEPT !.usedWords = Append(used, word), !.currentWord = word,
                   !.imposterIndex = imp, !.currentPlayerIndex = 0,
                   !.isRoleRevealed = FALSE, !.currentPhase = "REVEAL"]

\* startGame(): its error, and the state it leaves.
startGameError(st) == IF Len(st.players) < 3 THEN "Need at least 3 players!" ELSE ""

startGame(st, word, imp) ==
    IF startGameError(st) # ""
    THEN st
    ELSE startRound([st EXCEPT !.round = 1, !.usedWords = <<>>], word, imp)

\* The words and imposters Math.random() can choose in startGame().
StartChoices(st) ==
    IF startGameError(st) # ""
    THEN {<<"", -1>>}
    ELSE Available([st EXCEPT !.usedWords = <<>>]) \X (0..(Len(st.players) - 1))

\* What revealCurrentRole() returns (no word and no hint are ""), or nothing.
NoRole == <<>>

\* Mutant of revealCurrentRoleResult: the imposter is handed the word too.
revealCurrentRoleResultShowsWord(st) ==
    IF st.isRoleRevealed THEN NoRole
    ELSE LET imp == st.currentPlayerIndex = st.imposterIndex
         IN  <<[isImposter |-> imp,
                playerName |-> IF st.currentPlayerIndex + 1 \in 1..Len(st.players)
                               THEN st.players[st.currentPlayerIndex + 1] ELSE "",
                word |-> st.currentWord,
                hint |-> IF imp THEN Hint(st.currentWord) ELSE ""]>>

revealCurrentRoleResult(st) ==
    IF st.isRoleRevealed THEN NoRole
    ELSE LET imp == st.currentPlayerIndex = st.imposterIndex
         IN  <<[isImposter |-> imp,
                playerName |-> IF st.currentPlayerIndex + 1 \in 1..Len(st.players)
                               THEN st.players[st.currentPlayerIndex + 1] ELSE "",
                word |-> IF imp THEN "" ELSE st.currentWord,
                hint |-> IF imp THEN Hint(st.currentWord) ELSE ""]>>

revealCurrentRole(st) ==
    IF st.isRoleRevealed THEN st ELSE [st EXCEPT !.isRoleRevealed = TRUE]

nextRevealPlayer(st) ==
    [st EXCEPT !.currentPlayerIndex = @ + 1, !.isRoleRevealed = FALSE]

\* Mutant of nextClueTurn: the stopwatch keeps running into the next turn.
nextClueTurnKeepsTimer(st) == [st EXCEPT !.cluePlayerIndex = @ + 1]

startCluePhase(st, start) ==
    [st EXCEPT !.currentPhase = "CLUES", !.startingPlayerIndex = start,
               !.cluePlayerIndex = 0, !.timerSeconds = 0, !.timerRunning = FALSE]

nextClueTurn(st) ==
    [st EXCEPT !.cluePlayerIndex = @ + 1, !.timerSeconds = 0, !.timerRunning = FALSE]

\* The index of the player getCurrentCluePlayer() names; with no player the
\* remainder is NaN, held as -1.
getCurrentClueIndex(st) ==
    IF st.players = <<>> THEN -1
    ELSE (st.startingPlayerIndex + st.cluePlayerIndex) % Len(st.players)

getCurrentCluePlayer(st) ==
    IF st.players = <<>> THEN "" ELSE st.players[getCurrentClueIndex(st) + 1]

startDebatePhase(st) ==
    [st EXCEPT !.currentPhase = "DEBATE", !.timerSeconds = 0, !.timerRunning = FALSE]

nextRoundSameWord(st, start) ==
    [st EXCEPT !.round = @ + 1, !.startingPlayerIndex = start, !.cluePlayerIndex = 0,
               !.currentPhase = "CLUES", !.timerSeconds = 0, !.timerRunning = FALSE]

endGame(st) == [st EXCEPT !.currentPhase = "RESULTS", !.timerRunning = FALSE]

toggleTimer(st) == [st EXCEPT !.timerRunning = ~@]

resetTimer(st) == [st EXCEPT !.timerSeconds = 0, !.timerRunning = FALSE]

tickTimerSecond(st) == IF st.timerRunning THEN [st EXCEPT !.timerSeconds = @ + 1] ELSE st

\* The values of Math.floor(Math.random() * state.players.length); with no
\* player the product is 0.
RandomIndex(st) == IF st.players = <<>> THEN {0} ELSE 0..(Len(st.players) - 1)

\* The roles a game_start message hands out: the imposter with a hint, a
\* player with the word (null is "").
Roles ==
    { [isImposter |-> TRUE, word |-> "", hint |-> "kitchen"],
      [isImposter |-> FALSE, word |-> "spoon", hint |-> ""] }

\* The snapshots that are followed: the initial one, and two of a running game.
Snapshots ==
    { serialiseForSync(InitialState),
      [players |-> <<"hal", "ann", "bob">>, category |-> "food",
       currentPhase |-> "CLUES", round |-> 1, currentPlayerIndex |-> 0,
       cluePlayerIndex |-> 1, startingPlayerIndex |-> 1, timerSeconds |-> 0,
       timerRunning |-> TRUE],
      [players |-> <<"hal", "bob", "ann">>, category |-> "animals",
       currentPhase |-> "DEBATE", round |-> 2, currentPlayerIndex |-> 1,
       cluePlayerIndex |-> 2, startingPlayerIndex |-> 0, timerSeconds |-> 7,
       timerRunning |-> FALSE] }

(***************************************************************************)
(* JSON.stringify of a snapshot and the checksum of utils.js.  A text is   *)
(* the sequence of its UTF-16 code units.  The hash is kept as two 16-bit  *)
(* halves so that no product leaves the 32 bits the source wraps to.       *)
(***************************************************************************)
\* The code units of the strings a snapshot is made of.
Chars(str) ==
    CASE str = "players" -> <<112, 108, 97, 121, 101, 114, 115>>
      [] str = "category" -> <<99, 97, 116, 101, 103, 111, 114, 121>>
      [] str = "currentPhase" -> <<99, 117, 114, 114, 101, 110, 116, 80, 104, 97, 115, 101>>
      [] str = "round" -> <<114, 111, 117, 110, 100>>
      [] str = "currentPlayerIndex" -> <<99, 117, 114, 114, 101, 110, 116, 80, 108, 97, 121, 101, 114, 73, 110, 100, 101, 120>>
      [] str = "cluePlayerIndex" -> <<99, 108, 117, 101, 80, 108, 97, 121, 101, 114, 73, 110, 100, 101, 120>>
      [] str = "startingPlayerIndex" -> <<115, 116, 97, 114, 116, 105, 110, 103, 80, 108, 97, 121, 101, 114, 73, 110, 100, 101, 120>>
      [] str = "timerSeconds" -> <<116, 105, 109, 101, 114, 83, 101, 99, 111, 110, 100, 115>>
      [] str = "timerRunning" -> <<116, 105, 109, 101, 114, 82, 117, 110, 110, 105, 110, 103>>
      [] str = "true" -> <<116, 114, 117, 101>>
      [] str = "false" -> <<102, 97, 108, 115, 101>>
      [] str = "hal" -> <<104, 97, 108>>
      [] str = "ann" -> <<97, 110, 110>>
      [] str = "bob" -> <<98, 111, 98>>
      [] str = "household" -> <<104, 111, 117, 115, 101, 104, 111, 108, 100>>
      [] str = "food" -> <<102, 111, 111, 100>>
      [] str = "animals" -> <<97, 110, 105, 109, 97, 108, 115>>
      [] str = "MENU" -> <<77, 69, 78, 85>>
      [] str = "CLUES" -> <<67, 76, 85, 69, 83>>
      [] str = "DEBATE" -> <<68, 69, 66, 65, 84, 69>>
      [] str = "REVEAL" -> <<82, 69, 86, 69, 65, 76>>
      [] str = "RESULTS" -> <<82, 69, 83, 85, 76, 84, 83>>
      [] str = "Ann" -> <<65, 110, 110>>
      [] str = "cat" -> <<99, 97, 116>>

Quote == 34
Comma == 44
Colon == 58
Minus == 45
Digit0 == 48

\* A number as JSON.stringify writes it (integers only).
RECURSIVE Digits(_)
Digits(n) ==
    IF n < 0 THEN <<Minus>> \o Digits(0 - n)
    ELSE IF n < 10 THEN <<Digit0 + n>>
    ELSE Digits(n \div 10) \o <<Digit0 + (n % 10)>>

JsonString(str) == <<Quote>> \o Chars(str) \o <<Quote>>

JsonBool(b) == Chars(IF b THEN "true" ELSE "false")

RECURSIVE JsonItems(_)
JsonItems(strs) ==
    IF strs = <<>> THEN <<>>
    ELSE IF Len(strs) = 1 THEN JsonString(strs[1])
    ELSE JsonString(strs[1]) \o <<Comma>> \o JsonItems(Tail(strs))

JsonArray(strs) == <<91>> \o JsonItems(strs) \o <<93>>

Member(key, text) == JsonString(key) \o <<Colon>> \o text

\* JSON.stringify(s) of a snapshot: its members in insertion order, no
\* white space.
Stringify(s) ==
    <<123>>
    \o Member("players", JsonArray(s.players)) \o <<Comma>>
    \o Member("category", JsonString(s.category)) \o <<Comma>>
    \o Member("currentPhase", JsonString(s.currentPhase)) \o <<Comma>>
    \o Member("round", Digits(s.round)) \o <<Comma>>
    \o Member("currentPlayerIndex", Digits(s.currentPlayerIndex)) \o <<Comma>>
    \o Member("cluePlayerIndex", Digits(s.cluePlayerIndex)) \o <<Comma>>
    \o Member("startingPlayerIndex", Digits(s.startingPlayerIndex)) \o <<Comma>>
    \o Member("timerSeconds", Digits(s.timerSeconds)) \o <<Comma>>
    \o Member("timerRunning", JsonBool(s.timerRunning))
    \o <<125>>

Half == 65536

\* A 32-bit integer is the pair <<hi, lo>> of the two 16-bit halves of its
\* two's complement bits, so that no intermediate value leaves the integers of
\* the checker.  h << 5:
ShiftLeft5(h) ==
    LET t == 32 * h[2]
    IN  <<(32 * h[1] + (t \div Half)) % Half, t % Half>>

\* (a - b + c) | 0 for 32-bit a and b and a character code c: the sum is exact
\* and | 0 keeps its low 32 bits.
SubAddTruncate(a, b, c) ==
    LET t == a[2] - b[2] + c
    IN  <<(a[1] - b[1] + (t \div Half)) % Half, t % Half>>

\* Mutant of checksumStep: h = ((h << 5) + c) | 0.
checksumStepNoSubtract(h, c) == SubAddTruncate(ShiftLeft5(h), <<0, 0>>, c)

\* h = ((h << 5) - h + c) | 0
checksumStep(h, c) == SubAddTruncate(ShiftLeft5(h), h, c)

\* The loop over the characters i..j of str, in their order, from the hash h.
\* The range is halved and h is read first, which keeps the evaluation
\* shallow.
RECURSIVE checksumFrom(_, _, _, _)
checksumFrom(str, i, j, h) ==
    IF h[1] < 0 \/ i > j THEN h
    ELSE IF i = j THEN checksumStep(h, str[i])
    ELSE LET m == (i + j) \div 2
             left == checksumFrom(str, i, m, h)
         IN  checksumFrom(str, m + 1, j, left)

HexDigits == <<"0", "1", "2", "3", "4", "5", "6", "7", "8", "9",
               "a", "b", "c", "d", "e", "f">>

Hex4(n) ==
    <<HexDigits[(n \div 4096) + 1], HexDigits[((n \div 256) % 16) + 1],
      HexDigits[((n \div 16) % 16) + 1], HexDigits[(n % 16) + 1]>>

RECURSIVE StripZeros(_)
StripZeros(ds) ==
    IF Len(ds) > 1 /\ Head(ds) = "0" THEN StripZeros(Tail(ds)) ELSE ds

\* checksum(str): (h >>> 0).toString(16), as the sequence of its digits.
checksum(str) ==
    LET h == checksumFrom(str, 1, Len(str), <<0, 0>>)
    IN  StripZeros(Hex4(h[1]) \o Hex4(h[2]))

\* The sync message of one tick for the snapshot s.
SyncMessage(s) ==
    [Message("sync") EXCEPT !.version = PROTOCOL_VERSION, !.state = <<s>>,
                            !.checksum = checksum(Stringify(s))]

\* No function was called.
NoCall == [fn |-> "", arg |-> <<>>, res |-> <<>>]

\* The buttons as updateRevealScreen and updateDebatePhaseUI leave them.
InitialEl ==
    [nextPlayerBtn |-> FALSE, clueNextBtn |-> FALSE, postDiscussionOpts |-> FALSE,
     onlineReadyBtn |-> FALSE, onlineReadyDisabled |-> FALSE]

\* The strings checksum is called with: up to MaxStrLen characters of NUL,
\* "a" and U+FFFF.
CharCodes == {0, 97, 65535}

Strings == UNION {[1..n -> CharCodes] : n \in 0..MaxStrLen}

\* The descriptors encodeSDP is called with: an offer or an answer whose sdp
\* has up to MaxSdpLen characters of "a", "=", CR, LF, the quote, the
\* backslash, U+00E9 and U+20AC.
SdpCodes == {97, 61, 13, 10, 34, 92, 233, 8364}

OfferText == <<111, 102, 102, 101, 114>>
AnswerText == <<97, 110, 115, 119, 101, 114>>

Descriptors ==
    { [type |-> t, sdp |-> s] :
        t \in {OfferText, AnswerText},
        s \in UNION {[1..n -> SdpCodes] : n \in 0..MaxSdpLen} }

\* Texts a user can paste that no encodeSDP made: "!!!", and the base64 of
\* 42, [], {}, null, {"type":"offer"}, {not and of the byte FF.
PastedTexts ==
    { <<33, 33, 33>>,
      <<78, 68, 73, 61>>,
      <<87, 49, 48, 61>>,
      <<101, 51, 48, 61>>,
      <<98, 110, 86, 115, 98, 65, 61, 61>>,
      <<101, 121, 74, 48, 101, 88, 66, 108, 73, 106, 111, 105, 98, 50, 90, 109, 90, 88, 73, 105, 102, 81, 61, 61>>,
      <<101, 50, 53, 118, 100, 65, 61, 61>>,
      <<47, 119, 61, 61>> }

\* No gathering wait was begun on a connection: its iceGatheringState, whether
\* check is registered as a listener, whether the timeout is pending, whether
\* the promise is resolved, whether the continuation of the await is queued,
\* and how often the call was resumed.
NoWait ==
    [gathering |-> "new", listener |-> FALSE, timer |-> FALSE, resolved |-> FALSE,
     queued |-> FALSE, resumes |-> 0]

\* The page after it was loaded, and a manager after its construction.
InitPage ==
    /\ isHost \in BOOLEAN
    /\ peers = <<>>
    /\ pendingPeerId = NoPeer
    /\ nextId = 0
    /\ offerPc = [i \in Ids |-> "idle"]
    /\ pcIce = [i \in Ids |-> "none"]
    /\ chState = [i \in Ids |-> "none"]
    /\ remote = [i \in Ids |-> NoPeer]
    /\ notified = [i \in Ids |-> 0]
    /\ pingTimer = FALSE
    /\ syncTimer = FALSE
    /\ pingLive = 0
    /\ syncLive = 0
    /\ hostPc = FALSE
    /\ hostChannel = FALSE
    /\ answerPc = "idle"
    /\ hostIce = "none"
    /\ hostCh = "none"
    /\ hostNotified = 0
    /\ errors = 0
    /\ lastOp = Op("constructor", "ok")
    /\ out = <<>>
    /\ calls = <<>>
    /\ localName \in (IF isHost THEN {HostName} ELSE Names)
    /\ now = Head(Times)
    /\ latency = [k \in Ids \cup {NoPeer} |-> <<>>]
    /\ peerName = [i \in Ids |-> ""]
    /\ state = InitialState
    /\ screen = "menu"
    /\ el = InitialEl
    /\ chosen = <<>>
    /\ started = FALSE
    /\ wait = [k \in Ids \cup {NoPeer} |-> NoWait]

Init == InitPage /\ closed = FALSE /\ call = NoCall

\* The page after it was loaded: net is null, which is held as a manager that
\* is closed; isHost is the role the session is going to take.
InitApp == InitPage /\ closed = TRUE /\ call = NoCall

(***************************************************************************)
(* A call of checksum(str) of utils.js on the string chosen at the start.  *)
(***************************************************************************)
ChecksumCall ==
    /\ call' = [fn |-> "checksum", arg |-> call.arg, res |-> checksum(call.arg)]
    /\ lastOp' = Op("checksum", "ok")
    /\ out' = <<>> /\ calls' = <<>>
    /\ UNCHANGED <<screen, el, chosen, started, wait, msgVars, isHost, closed, regVars,
                   offerVars, connVars, timerVars, joinVars, cbVars>>

(***************************************************************************)
(* Calls of encodeSDP(desc) and decodeSDP(encoded) of utils.js: a          *)
(* descriptor is encoded and the code decoded, or a pasted text decoded.   *)
(***************************************************************************)
EncodeCall ==
    /\ call.fn = ""
    /\ call' = [fn |-> "encodeSDP", arg |-> call.arg, res |-> encodeSDPText(call.arg)]
    /\ lastOp' = Op("encodeSDP", "ok")
    /\ out' = <<>> /\ calls' = <<>>
    /\ UNCHANGED <<screen, el, chosen, started, wait, msgVars, isHost, closed, regVars,
                   offerVars, connVars, timerVars, joinVars, cbVars>>

DecodeCall ==
    /\ call.fn \in {"encodeSDP", "paste"}
    /\ LET r == decodeSDPText(call.res)
       IN  /\ call' = [fn |-> "decodeSDP", arg |-> call.res, res |-> r]
           /\ lastOp' = Op("decodeSDP", IF r.threw THEN "Error" ELSE "ok")
    /\ out' = <<>> /\ calls' = <<>>
    /\ UNCHANGED <<screen, el, chosen, started, wait, msgVars, isHost, closed, regVars,
                   offerVars, connVars, timerVars, joinVars, cbVars>>

InitCodec ==
    /\ InitPage /\ closed = FALSE /\ isHost
    /\ \/ call \in {[fn |-> "", arg |-> d, res |-> <<>>] : d \in Descriptors}
       \/ call \in {[fn |-> "paste", arg |-> <<>>, res |-> t] : t \in PastedTexts}

SpecCodec == InitCodec /\ [][EncodeCall \/ DecodeCall]_vars

InitChecksum ==
    /\ InitPage /\ closed = FALSE /\ isHost
    /\ call \in {[fn |-> "", arg |-> s, res |-> <<>>] : s \in Strings}

SpecChecksum == InitChecksum /\ [][ChecksumCall]_vars

(***************************************************************************)
(* Host: createOffer().  The call runs to its first await and is resumed   *)
(* when the candidate-gathering wait resolves; the record is put in the    *)
(* Map, and pendingPeerId set, only then.  generateId() draws 7 random     *)
(* base-36 digits; the model hands out ids that were not used before.      *)
(***************************************************************************)
generateId == nextId + 1

CreateOfferStart(limit) ==
    /\ isHost /\ ~closed
    /\ nextId < limit
    /\ LET peerId == generateId IN
        /\ nextId' = peerId
        /\ pcIce' = [pcIce EXCEPT ![peerId] = "new"]
        /\ chState' = [chState EXCEPT ![peerId] = "connecting"]
        /\ offerPc' = [offerPc EXCEPT ![peerId] = "gathering"]
        /\ lastOp' = Op("createOffer", "ok")
    /\ out' = <<>> /\ calls' = <<>>
    /\ UNCHANGED <<appVars, msgVars, isHost, closed, regVars, remote, timerVars, joinVars, cbVars>>

\* Mutant of CreateOfferResume: an invite that is pending is not superseded.
CreateOfferResumeKeepsPending(peerId) ==
    /\ offerPc[peerId] = "gathering"
    /\ peers' = MapSet(peers, peerId)
    /\ pendingPeerId' = IF pendingPeerId = NoPeer THEN peerId ELSE pendingPeerId
    /\ offerPc' = [offerPc EXCEPT ![peerId] = "returned"]
    /\ lastOp' = Op("createOfferResume", "ok")
    /\ out' = <<>> /\ calls' = <<>>
    /\ UNCHANGED <<appVars, msgVars, isHost, closed, nextId, connVars, timerVars, joinVars, cbVars>>

CreateOfferResume(peerId) ==
    /\ offerPc[peerId] = "gathering"
    /\ peers' = MapSet(peers, peerId)
    /\ pendingPeerId' = peerId
    /\ offerPc' = [offerPc EXCEPT ![peerId] = "returned"]
    /\ lastOp' = Op("createOfferResume", "ok")
    /\ out' = <<>> /\ calls' = <<>>
    /\ UNCHANGED <<appVars, msgVars, isHost, closed, nextId, connVars, timerVars, joinVars, cbVars>>

(***************************************************************************)
(* _waitIceGathering(pc) in detail.  The promise is resolved at once on a  *)
(* connection whose gathering is complete; otherwise check is registered   *)
(* for icegatheringstatechange and a timeout of 10 s is set, and each of   *)
(* the two calls resolve.  Resolving a promise that is resolved does       *)
(* nothing; the first resolve queues the continuation of the await, which  *)
(* runs the rest of createOffer() or createAnswer().  The key NoPeer is    *)
(* the joiner's connection to the host.                                    *)
(***************************************************************************)
GatheringStates == {"new", "gathering", "complete"}

\* Mutant of Resolve: a second resolve queues the continuation again.
ResolveQueuesAgain(w) == [w EXCEPT !.resolved = TRUE, !.queued = TRUE]

\* resolve()
Resolve(w) == IF w.resolved THEN w ELSE [w EXCEPT !.resolved = TRUE, !.queued = TRUE]

\* new Promise(...) of _waitIceGathering on a connection whose gathering
\* state is g.
WaitBegin(g) ==
    IF g = "complete"
    THEN Resolve([NoWait EXCEPT !.gathering = g])
    ELSE [NoWait EXCEPT !.gathering = g, !.listener = TRUE, !.timer = TRUE]

\* createOffer() up to the await of the gathering wait.
CreateOfferAwait(limit, g) ==
    /\ isHost /\ ~closed
    /\ nextId < limit
    /\ LET peerId == generateId IN
        /\ nextId' = peerId
        /\ pcIce' = [pcIce EXCEPT ![peerId] = "new"]
        /\ chState' = [chState EXCEPT ![peerId] = "connecting"]
        /\ offerPc' = [offerPc EXCEPT ![peerId] = "gathering"]
        /\ wait' = [wait EXCEPT ![peerId] = WaitBegin(g)]
        /\ lastOp' = Op("createOffer", "ok")
    /\ out' = <<>> /\ calls' = <<>>
    /\ UNCHANGED <<screen, el, call, chosen, started, msgVars, isHost, closed, regVars,
                   remote, timerVars, joinVars, cbVars>>

\* The browser moves the gathering state of a connection on and raises
\* icegatheringstatechange, which runs check where it is registered.
IceGatheringStateChange(k, s) ==
    /\ IF k = NoPeer THEN hostPc /\ hostIce \notin {"none", "closed"}
       ELSE pcIce[k] \notin {"none", "closed"}
    /\ \/ wait[k].gathering = "new" /\ s = "gathering"
       \/ wait[k].gathering = "gathering" /\ s = "complete"
    /\ wait' = [wait EXCEPT ![k] =
                  IF @.listener /\ s = "complete"
                  THEN Resolve([@ EXCEPT !.gathering = s, !.listener = FALSE])
                  ELSE [@ EXCEPT !.gathering = s]]
    /\ lastOp' = Op("icegatheringstatechange", "ok")
    /\ out' = <<>> /\ calls' = <<>>
    /\ UNCHANGED <<screen, el, call, chosen, started, msgVars, isHost, closed, regVars,
                   offerVars, connVars, timerVars, joinVars, cbVars>>

\* The timeout of 10 s fires.
WaitTimeout(k) ==
    /\ wait[k].timer
    /\ wait' = [wait EXCEPT ![k] = Resolve([@ EXCEPT !.timer = FALSE])]
    /\ lastOp' = Op("waitTimeout", "ok")
    /\ out' = <<>> /\ calls' = <<>>
    /\ UNCHANGED <<screen, el, call, chosen, started, msgVars, isHost, closed, regVars,
                   offerVars, connVars, timerVars, joinVars, cbVars>>

\* createOffer() after the await: the record, the pending slot and the code.
CreateOfferContinue(peerId) ==
    /\ wait[peerId].queued
    /\ wait' = [wait EXCEPT ![peerId].queued = FALSE, ![peerId].resumes = @ + 1]
    /\ peers' = MapSet(peers, peerId)
    /\ pendingPeerId' = peerId
    /\ offerPc' = [offerPc EXCEPT ![peerId] = "returned"]
    /\ call' = [fn |-> "createOffer", arg |-> peerId,
                res |-> encodeSDP(Desc("offer", peerId))]
    /\ lastOp' = Op("createOfferResume", "ok")
    /\ out' = <<>> /\ calls' = <<>>
    /\ UNCHANGED <<screen, el, chosen, started, msgVars, isHost, closed, nextId,
                   connVars, timerVars, joinVars, cbVars>>

(***************************************************************************)
(* Host: acceptAnswer(answerCode).  setRemoteDescription takes an answer   *)
(* only on a connection that has a local offer and no remote description   *)
(* yet; anything else rejects.  Nothing follows the await.                 *)
(***************************************************************************)
SetRemoteAccepts(id, val) ==
    /\ val.shape = "desc" /\ val.type = "answer"
    /\ pcIce[id] \notin {"none", "closed"}
    /\ remote[id] = NoPeer

\* Mutant of acceptAnswerResult: the guard tests the id, not the record.
acceptAnswerResultNullCheck(answerCode) ==
    LET id == pendingPeerId
        desc == decodeSDP(answerCode)
    IN  IF id = NoPeer THEN "NoPendingPeer"
        ELSE IF desc.threw THEN "DecodeError"
        ELSE IF ~SetRemoteAccepts(id, desc.val) THEN "SetRemoteError"
        ELSE "ok"

acceptAnswerResult(answerCode) ==
    LET id == pendingPeerId
        desc == decodeSDP(answerCode)
    IN  IF ~MapHas(peers, id) THEN "NoPendingPeer"
        ELSE IF desc.threw THEN "DecodeError"
        ELSE IF ~SetRemoteAccepts(id, desc.val) THEN "SetRemoteError"
        ELSE "ok"

\* Mutant of AcceptAnswer: the answer goes to the connection whose offer it
\* was made from.
AcceptAnswerByOffer(answerCode) ==
    /\ isHost
    /\ LET res == acceptAnswerResult(answerCode) IN
        /\ remote' = IF res = "ok"
                     THEN [remote EXCEPT ![decodeSDP(answerCode).val.sdp] =
                                             decodeSDP(answerCode).val.sdp]
                     ELSE remote
        /\ lastOp' = Op("acceptAnswer", res)
    /\ out' = <<>> /\ calls' = <<>>
    /\ UNCHANGED <<appVars, msgVars, isHost, closed, regVars, offerVars, pcIce, chState, timerVars,
                   joinVars, cbVars>>

\* Mutant of AcceptAnswer: a failed call gives the pending attempt up.
AcceptAnswerAborts(answerCode) ==
    /\ isHost
    /\ LET res == acceptAnswerResult(answerCode) IN
        /\ remote' = IF res = "ok"
                     THEN [remote EXCEPT ![pendingPeerId] = decodeSDP(answerCode).val.sdp]
                     ELSE remote
        /\ pendingPeerId' = IF res = "ok" THEN pendingPeerId ELSE NoPeer
        /\ lastOp' = Op("acceptAnswer", res)
    /\ out' = <<>> /\ calls' = <<>>
    /\ UNCHANGED <<appVars, msgVars, isHost, closed, peers, offerVars, pcIce, chState, timerVars,
                   joinVars, cbVars>>

AcceptAnswer(answerCode) ==
    /\ isHost
    /\ LET res == acceptAnswerResult(answerCode) IN
        /\ remote' = IF res = "ok"
                     THEN [remote EXCEPT ![pendingPeerId] = decodeSDP(answerCode).val.sdp]
                     ELSE remote
        /\ lastOp' = Op("acceptAnswer", res)
    /\ out' = <<>> /\ calls' = <<>>
    /\ UNCHANGED <<appVars, msgVars, isHost, closed, regVars, offerVars, pcIce, chState, timerVars,
                   joinVars, cbVars>>

(***************************************************************************)
(* Host: _handlePeerDisconnect(peerId), run by the connectivity-state      *)
(* handler and by the channel's close and error handlers.  ice and ch are  *)
(* the objects' states as the event that runs the handler left them.       *)
(***************************************************************************)
\* Mutant of HandlePeerDisconnect: no early return for an absent record.
HandlePeerDisconnectNoGuard(peerId, ice, ch) ==
    /\ chState' = [ch EXCEPT ![peerId] = ChannelCloseCall(@)]
    /\ pcIce' = [ice EXCEPT ![peerId] = PcCloseCall(@)]
    /\ peers' = MapDelete(peers, peerId)
    /\ notified' = [notified EXCEPT ![peerId] = @ + 1]

HandlePeerDisconnect(peerId, ice, ch) ==
    IF ~MapHas(peers, peerId)
    THEN /\ pcIce' = ice
         /\ chState' = ch
         /\ UNCHANGED <<peers, notified>>
    ELSE /\ chState' = [ch EXCEPT ![peerId] = ChannelCloseCall(@)]
         /\ pcIce' = [ice EXCEPT ![peerId] = PcCloseCall(@)]
         /\ peers' = MapDelete(peers, peerId)
         /\ notified' = [notified EXCEPT ![peerId] = @ + 1]

\* The connectivity states the browser can move a live connection to.  A
\* connection gets connected only with the answer of the joiner that holds
\* its offer.
IceCanBecome(peerId, s) ==
    /\ pcIce[peerId] \notin {"none", "closed", "failed"}
    /\ s # pcIce[peerId]
    /\ s = "connected" => remote[peerId] = peerId
    /\ s = "disconnected" => pcIce[peerId] = "connected"

IceStateChange(peerId, s) ==
    /\ isHost
    /\ IceCanBecome(peerId, s)
    /\ LET ice == [pcIce EXCEPT ![peerId] = s] IN
        IF s \in {"disconnected", "failed"}
        THEN HandlePeerDisconnect(peerId, ice, chState)
        ELSE pcIce' = ice /\ UNCHANGED <<chState, peers, notified>>
    /\ lastOp' = Op("oniceconnectionstatechange", "ok")
    /\ out' = <<>> /\ calls' = <<>>
    /\ UNCHANGED <<appVars, msgVars, isHost, closed, pendingPeerId, offerVars, remote, timerVars,
                   joinVars, hostNotified, errors>>

ChannelOpen(peerId) ==
    /\ isHost
    /\ chState[peerId] = "connecting"
    /\ pcIce[peerId] = "connected"
    /\ chState' = [chState EXCEPT ![peerId] = "open"]
    /\ lastOp' = Op("ch.onopen", "ok")
    /\ out' = <<>> /\ calls' = <<>>
    /\ UNCHANGED <<appVars, msgVars, isHost, closed, regVars, offerVars, pcIce, remote, timerVars,
                   joinVars, cbVars>>

\* The remote side starts closing the channel; net.js handles no closing event.
ChannelClosing(peerId) ==
    /\ isHost
    /\ chState[peerId] = "open"
    /\ chState' = [chState EXCEPT ![peerId] = "closing"]
    /\ lastOp' = Op("ch.onclosing", "ok")
    /\ out' = <<>> /\ calls' = <<>>
    /\ UNCHANGED <<appVars, msgVars, isHost, closed, regVars, offerVars, pcIce, remote, timerVars,
                   joinVars, cbVars>>

ChannelClose(peerId) ==
    /\ isHost
    /\ chState[peerId] \in {"connecting", "open", "closing"}
    /\ HandlePeerDisconnect(peerId, pcIce, [chState EXCEPT ![peerId] = "closed"])
    /\ lastOp' = Op("ch.onclose", "ok")
    /\ out' = <<>> /\ calls' = <<>>
    /\ UNCHANGED <<appVars, msgVars, isHost, closed, pendingPeerId, offerVars, remote, timerVars,
                   joinVars, hostNotified, errors>>

ChannelError(peerId) ==
    /\ isHost
    /\ chState[peerId] \in {"connecting", "open"}
    /\ HandlePeerDisconnect(peerId, pcIce, [chState EXCEPT ![peerId] = "closing"])
    /\ lastOp' = Op("ch.onerror", "ok")
    /\ out' = <<>> /\ calls' = <<>>
    /\ UNCHANGED <<appVars, msgVars, isHost, closed, pendingPeerId, offerVars, remote, timerVars,
                   joinVars, hostNotified, errors>>

(***************************************************************************)
(* Messaging.  Among the frames the application hands to broadcast(msg)   *)
(* are lobby_update and disconnect.                                        *)
(***************************************************************************)
AppFrames == {"lobby_update", "disconnect"}

Broadcast(type) ==
    /\ isHost
    /\ out' = broadcastFrames(peers, Message(type)) /\ calls' = <<>>
    /\ lastOp' = Op("broadcast", "ok")
    /\ UNCHANGED <<appVars, msgVars, isHost, closed, regVars, offerVars, connVars, timerVars,
                   joinVars, cbVars>>

(***************************************************************************)
(* The two interval timers.  A timer variable says whether the field holds *)
(* a handle; the Live counters are the intervals the browser still runs.   *)
(* The application starts the loops on the manager it holds in `net`, and  *)
(* drops a manager when it closes it, so no loop is started after close(). *)
(***************************************************************************)
\* Mutant of ClearedLive: a start or stop call leaves the earlier interval
\* running.
ClearedLiveKeeps(timer, live) == live

\* clearInterval(handle) under `if (handle)`.
ClearedLive(timer, live) == IF timer THEN live - 1 ELSE live

StartPingLoop ==
    /\ ~closed
    /\ pingLive' = ClearedLive(pingTimer, pingLive) + 1
    /\ pingTimer' = TRUE
    /\ lastOp' = Op("startPingLoop", "ok")
    /\ out' = <<>> /\ calls' = <<>>
    /\ UNCHANGED <<appVars, msgVars, isHost, closed, regVars, offerVars, connVars, syncTimer,
                   syncLive, joinVars, cbVars>>

StopPingLoop ==
    /\ pingLive' = ClearedLive(pingTimer, pingLive)
    /\ pingTimer' = FALSE
    /\ lastOp' = Op("stopPingLoop", "ok")
    /\ out' = <<>> /\ calls' = <<>>
    /\ UNCHANGED <<appVars, msgVars, isHost, closed, regVars, offerVars, connVars, syncTimer,
                   syncLive, joinVars, cbVars>>

StartSyncLoop ==
    /\ isHost /\ ~closed
    /\ syncLive' = ClearedLive(syncTimer, syncLive) + 1
    /\ syncTimer' = TRUE
    /\ lastOp' = Op("startSyncLoop", "ok")
    /\ out' = <<>> /\ calls' = <<>>
    /\ UNCHANGED <<appVars, msgVars, isHost, closed, regVars, offerVars, connVars, pingTimer,
                   pingLive, joinVars, cbVars>>

StopSyncLoop ==
    /\ syncLive' = ClearedLive(syncTimer, syncLive)
    /\ syncTimer' = FALSE
    /\ lastOp' = Op("stopSyncLoop", "ok")
    /\ out' = <<>> /\ calls' = <<>>
    /\ UNCHANGED <<appVars, msgVars, isHost, closed, regVars, offerVars, connVars, pingTimer,
                   pingLive, joinVars, cbVars>>

PingTick ==
    /\ pingLive > 0
    /\ LET msg == [Message("ping") EXCEPT !.ts = <<now>>] IN
        out' = IF isHost THEN broadcastFrames(peers, msg) ELSE sendToHostFrames(msg)
    /\ calls' = <<>>
    /\ lastOp' = Op("pingTick", "ok")
    /\ UNCHANGED <<appVars, msgVars, isHost, closed, regVars, offerVars, connVars, timerVars,
                   joinVars, cbVars>>

\* Mutant of SyncTick: the tick sends the snapshot of the time the manager
\* was made.
SyncTickStale ==
    /\ syncLive > 0
    /\ out' = broadcastFrames(peers, SyncMessage(serialiseForSync(InitialState)))
    /\ calls' = <<>>
    /\ lastOp' = Op("syncTick", "ok")
    /\ UNCHANGED <<appVars, msgVars, isHost, closed, regVars, offerVars, connVars, timerVars,
                   joinVars, cbVars>>

\* One tick of the snapshot timer; getStateFn is () => serialiseForSync().
SyncTick ==
    /\ syncLive > 0
    /\ out' = broadcastFrames(peers, SyncMessage(serialiseForSync(state)))
    /\ calls' = <<>>
    /\ lastOp' = Op("syncTick", "ok")
    /\ UNCHANGED <<appVars, msgVars, isHost, closed, regVars, offerVars, connVars, timerVars,
                   joinVars, cbVars>>

\* The host's game moves on (doStartCluePhase, doNextClueTurn, doStartDebate,
\* doNextRound, doFinishMission of app.js): the state functions change the
\* shared fields and the new snapshot is broadcast as a phase_change.
HostPhaseChange(s) ==
    /\ isHost /\ ~closed
    /\ state' = applyHostState(state, s)
    /\ out' = broadcastFrames(peers,
                 [Message("phase_change") EXCEPT
                     !.phase = s.currentPhase,
                     !.state = <<serialiseForSync(state')>>])
    /\ calls' = <<>>
    /\ lastOp' = Op("phaseChange", "ok")
    /\ UNCHANGED <<appVars, localName, now, latency, peerName, isHost, closed, regVars,
                   offerVars, connVars, timerVars, joinVars, cbVars>>

(***************************************************************************)
(* close(): both timers, every record of the Map, and the joiner's         *)
(* connection to the host.                                                 *)
(***************************************************************************)
\* Mutant of Close: the snapshot timer is left running.
CloseKeepsSync ==
    /\ closed' = TRUE
    /\ pingLive' = ClearedLive(pingTimer, pingLive)
    /\ pingTimer' = FALSE
    /\ chState' = [i \in Ids |->
                    IF MapHas(peers, i) THEN ChannelCloseCall(chState[i]) ELSE chState[i]]
    /\ pcIce' = [i \in Ids |->
                    IF MapHas(peers, i) THEN PcCloseCall(pcIce[i]) ELSE pcIce[i]]
    /\ peers' = <<>>
    /\ pendingPeerId' = NoPeer
    /\ hostCh' = IF hostChannel THEN ChannelCloseCall(hostCh) ELSE hostCh
    /\ hostIce' = IF hostPc THEN PcCloseCall(hostIce) ELSE hostIce
    /\ hostPc' = FALSE
    /\ hostChannel' = FALSE
    /\ lastOp' = Op("close", "ok")
    /\ out' = <<>> /\ calls' = <<>>
    /\ UNCHANGED <<appVars, msgVars, isHost, offerVars, remote, answerPc, cbVars, syncTimer, syncLive>>

Close ==
    /\ closed' = TRUE
    /\ pingLive' = ClearedLive(pingTimer, pingLive)
    /\ pingTimer' = FALSE
    /\ syncLive' = ClearedLive(syncTimer, syncLive)
    /\ syncTimer' = FALSE
    /\ chState' = [i \in Ids |->
                    IF MapHas(peers, i) THEN ChannelCloseCall(chState[i]) ELSE chState[i]]
    /\ pcIce' = [i \in Ids |->
                    IF MapHas(peers, i) THEN PcCloseCall(pcIce[i]) ELSE pcIce[i]]
    /\ peers' = <<>>
    /\ pendingPeerId' = NoPeer
    /\ hostCh' = IF hostChannel THEN ChannelCloseCall(hostCh) ELSE hostCh
    /\ hostIce' = IF hostPc THEN PcCloseCall(hostIce) ELSE hostIce
    /\ hostPc' = FALSE
    /\ hostChannel' = FALSE
    /\ lastOp' = Op("close", "ok")
    /\ out' = <<>> /\ calls' = <<>>
    /\ UNCHANGED <<appVars, msgVars, isHost, offerVars, remote, answerPc, cbVars>>

(***************************************************************************)
(* Joiner: createAnswer(offerCode) and the handlers of the connection to   *)
(* the host.  The application makes one manager per join attempt.          *)
(***************************************************************************)
CreateAnswerStart(offerCode) ==
    /\ ~isHost /\ ~closed
    /\ answerPc = "idle"
    /\ hostPc' = TRUE
    /\ hostIce' = "new"
    /\ LET desc == decodeSDP(offerCode) IN
        IF desc.threw
        THEN answerPc' = "threw" /\ lastOp' = Op("createAnswer", "DecodeError")
        ELSE IF ~(desc.val.shape = "desc" /\ desc.val.type = "offer")
        THEN answerPc' = "threw" /\ lastOp' = Op("createAnswer", "SetRemoteError")
        ELSE answerPc' = "gathering" /\ lastOp' = Op("createAnswer", "ok")
    /\ out' = <<>> /\ calls' = <<>>
    /\ UNCHANGED <<appVars, msgVars, isHost, closed, regVars, offerVars, connVars, timerVars,
                   hostChannel, hostCh, cbVars>>

CreateAnswerResume ==
    /\ answerPc = "gathering"
    /\ answerPc' = "returned"
    /\ lastOp' = Op("createAnswerResume", "ok")
    /\ out' = <<>> /\ calls' = <<>>
    /\ UNCHANGED <<appVars, msgVars, isHost, closed, regVars, offerVars, connVars, timerVars,
                   hostPc, hostChannel, hostIce, hostCh, cbVars>>

\* createAnswer(offerCode) of a valid invite up to the await of the gathering
\* wait, and after it.
CreateAnswerAwait(offerCode, g) ==
    /\ ~isHost /\ ~closed
    /\ answerPc = "idle"
    /\ hostPc' = TRUE
    /\ hostIce' = "new"
    /\ LET desc == decodeSDP(offerCode) IN
        /\ ~desc.threw /\ desc.val.shape = "desc" /\ desc.val.type = "offer"
        /\ answerPc' = "gathering" /\ lastOp' = Op("createAnswer", "ok")
    /\ wait' = [wait EXCEPT ![NoPeer] = WaitBegin(g)]
    /\ out' = <<>> /\ calls' = <<>>
    /\ UNCHANGED <<screen, el, call, chosen, started, msgVars, isHost, closed, regVars,
                   offerVars, connVars, timerVars, hostChannel, hostCh, cbVars>>

CreateAnswerContinue ==
    /\ wait[NoPeer].queued
    /\ wait' = [wait EXCEPT ![NoPeer].queued = FALSE, ![NoPeer].resumes = @ + 1]
    /\ answerPc' = "returned"
    /\ call' = [fn |-> "createAnswer", arg |-> NoPeer,
                res |-> encodeSDP(Desc("answer", NoPeer))]
    /\ lastOp' = Op("createAnswerResume", "ok")
    /\ out' = <<>> /\ calls' = <<>>
    /\ UNCHANGED <<screen, el, chosen, started, msgVars, isHost, closed, regVars,
                   offerVars, connVars, timerVars, hostPc, hostChannel, hostIce, hostCh,
                   cbVars>>

\* The connectivity states the browser can move the joiner's connection to;
\* it connects only after the answer was handed out.
HostIceCanBecome(s) ==
    /\ hostIce \notin {"none", "closed", "failed"}
    /\ s # hostIce
    /\ s = "connected" => answerPc = "returned"
    /\ s = "disconnected" => hostIce = "connected"

HostIceStateChange(s) ==
    /\ ~isHost
    /\ HostIceCanBecome(s)
    /\ hostIce' = s
    /\ IF s \in {"disconnected", "failed"}
       THEN hostNotified < MaxNotify /\ hostNotified' = hostNotified + 1
       ELSE hostNotified' = hostNotified
    /\ lastOp' = Op("hostPc.oniceconnectionstatechange", "ok")
    /\ out' = <<>> /\ calls' = <<>>
    /\ UNCHANGED <<appVars, msgVars, isHost, closed, regVars, offerVars, connVars, timerVars,
                   hostPc, hostChannel, answerPc, hostCh, notified, errors>>

OnDataChannel ==
    /\ ~isHost
    /\ hostIce = "connected" /\ hostCh = "none"
    /\ hostChannel' = TRUE
    /\ hostCh' = "connecting"
    /\ lastOp' = Op("ondatachannel", "ok")
    /\ out' = <<>> /\ calls' = <<>>
    /\ UNCHANGED <<appVars, msgVars, isHost, closed, regVars, offerVars, connVars, timerVars,
                   hostPc, answerPc, hostIce, cbVars>>

\* Mutant of HostChannelOpen: the open handler sends nothing.
HostChannelOpenSilent ==
    /\ ~isHost
    /\ hostCh = "connecting" /\ hostIce = "connected"
    /\ hostCh' = "open"
    /\ out' = <<>> /\ calls' = <<>>
    /\ lastOp' = Op("hostChannel.onopen", "ok")
    /\ UNCHANGED <<appVars, msgVars, isHost, closed, regVars, offerVars, connVars, timerVars,
                   hostPc, hostChannel, answerPc, hostIce, cbVars>>

HostChannelOpen ==
    /\ ~isHost
    /\ hostCh = "connecting" /\ hostIce = "connected"
    /\ hostCh' = "open"
    /\ LET msg == [Message("hello") EXCEPT !.version = PROTOCOL_VERSION,
                                          !.name = localName] IN
        out' = IF hostChannel /\ SendGuard("open") THEN <<Frame(NoPeer, msg)>> ELSE <<>>
    /\ calls' = <<>>
    /\ lastOp' = Op("hostChannel.onopen", "ok")
    /\ UNCHANGED <<appVars, msgVars, isHost, closed, regVars, offerVars, connVars, timerVars,
                   hostPc, hostChannel, answerPc, hostIce, cbVars>>

HostChannelClose ==
    /\ ~isHost
    /\ hostCh \in {"connecting", "open", "closing"}
    /\ hostNotified < MaxNotify
    /\ hostCh' = "closed"
    /\ hostNotified' = hostNotified + 1
    /\ lastOp' = Op("hostChannel.onclose", "ok")
    /\ out' = <<>> /\ calls' = <<>>
    /\ UNCHANGED <<appVars, msgVars, isHost, closed, regVars, offerVars, connVars, timerVars,
                   hostPc, hostChannel, answerPc, hostIce, notified, errors>>

HostChannelError ==
    /\ ~isHost
    /\ hostCh \in {"connecting", "open"}
    /\ hostCh' = "closing"
    /\ errors' = errors + 1
    /\ lastOp' = Op("hostChannel.onerror", "ok")
    /\ out' = <<>> /\ calls' = <<>>
    /\ UNCHANGED <<appVars, msgVars, isHost, closed, regVars, offerVars, connVars, timerVars,
                   hostPc, hostChannel, answerPc, hostIce, notified, hostNotified>>

(***************************************************************************)
(* The message router.  An inbound frame is text: whether it is JSON, and  *)
(* the value JSON.parse makes of it.  A value is an object, a number, an   *)
(* array or null; its type field is a string, a number or absent.  The     *)
(* browser delivers a frame only on a channel that is open.                *)
(***************************************************************************)
Parsed(shape, typeKind, msg) == [shape |-> shape, typeKind |-> typeKind, msg |-> msg]

Envelope(msg) == Parsed("object", "string", msg)

Data(json, val) == [json |-> json, val |-> val]

\* "{not-json", and the JSON texts {}, 42, [], {"type": 7} and null.
NotJson == Data(FALSE, Parsed("null", "absent", Message("")))

NoEnvelope ==
    { Data(TRUE, Parsed("object", "absent", Message(""))),
      Data(TRUE, Parsed("number", "absent", Message(""))),
      Data(TRUE, Parsed("array", "absent", Message(""))),
      Data(TRUE, Parsed("object", "number", Message(""))),
      Data(TRUE, Parsed("null", "absent", Message(""))) }

\* The timestamps inbound frames carry: none, or one of the readings.
TsValues == {<<>>} \cup {<<Times[i]>> : i \in 1..Len(Times)}

\* The frames a joiner can put on its channel, and the frames a host can.
ControlTypes == {"hello", "welcome", "ping", "pong"}

\* The frame of a hello that announces name n.
HelloData(n) ==
    Data(TRUE, Envelope([Message("hello") EXCEPT !.name = n,
                                                 !.version = PROTOCOL_VERSION]))

FromPeer ==
    { HelloData(n) : n \in Names }
    \cup { Data(TRUE, Envelope([Message(t) EXCEPT !.ts = ts])) :
            t \in {"ping", "pong"}, ts \in TsValues }
    \cup { Data(TRUE, Envelope(Message(t))) : t \in {"welcome", "input"} }

\* A checksum that is the checksum of no snapshot.
BadChecksum == <<"0">>

FromHost ==
    { Data(TRUE, Envelope([Message("welcome") EXCEPT !.version = PROTOCOL_VERSION,
                                                     !.peerId = p])) : p \in Ids }
    \cup { Data(TRUE, Envelope([Message(t) EXCEPT !.ts = ts])) :
            t \in {"ping", "pong"}, ts \in TsValues }
    \cup { Data(TRUE, Envelope(SyncMessage(s))) : s \in Snapshots }
    \cup { Data(TRUE, Envelope([SyncMessage(s) EXCEPT !.checksum = BadChecksum])) :
            s \in Snapshots }
    \cup { Data(TRUE, Envelope([Message("phase_change") EXCEPT
                                    !.phase = s.currentPhase, !.state = <<s>>])) :
            s \in Snapshots }
    \cup { Data(TRUE, Envelope([Message("game_start") EXCEPT
                                    !.version = PROTOCOL_VERSION,
                                    !.players = <<"hal", "ann", "bob">>,
                                    !.category = "food", !.role = <<r>>])) :
            r \in Roles }
    \cup { Data(TRUE, Envelope(Message(t))) : t \in {"hello", "lobby_update", "sync"} }

\* Mutant of Call: the callback is not told which peer the message is from.
CallUntagged(cb, from, nm, val) == [cb |-> cb, from |-> NoPeer, name |-> nm, val |-> val]

\* A call of a collaborator callback: onMessage(from, val),
\* onPeerConnected(from, name), onConnectedToHost().
Call(cb, from, nm, val) == [cb |-> cb, from |-> from, name |-> nm, val |-> val]

NoVal == Parsed("null", "absent", Message(""))

\* Mutant of TsOrZero: the echoed timestamp is not read.
TsAlwaysZero(msg) == 0

\* msg.ts ?? 0
TsOrZero(msg) == IF msg.ts = <<>> THEN 0 ELSE msg.ts[1]

\* Mutant of Welcome: the welcome does not carry the peer id.
WelcomeNoId(peerId) == [Message("welcome") EXCEPT !.version = PROTOCOL_VERSION]

\* The welcome the host answers a hello with.
Welcome(peerId) ==
    [Message("welcome") EXCEPT !.version = PROTOCOL_VERSION, !.peerId = peerId]

\* _handleHostMessage(peerId, msg).  The collaborator's onPeerConnected is
\* onHostPeerConnected, which broadcasts a lobby update; its onMessage is
\* onHostMessage, which does nothing on an input message or an unknown type.
HandleHostMessage(peerId, val) ==
    LET msg == val.msg
        type == IF val.typeKind = "string" THEN msg.type ELSE ""
    IN  CASE type = "hello" ->
              /\ peerName' = IF MapHas(peers, peerId)
                             THEN [peerName EXCEPT ![peerId] = msg.name]
                             ELSE peerName
              /\ out' = sendToPeerFrames(peerId, Welcome(peerId))
                        \o broadcastFrames(peers, Message("lobby_update"))
              /\ calls' = <<Call("onPeerConnected", peerId, msg.name, NoVal)>>
              /\ UNCHANGED latency
          [] type = "pong" ->
              /\ latency' = [latency EXCEPT ![peerId] = <<now - TsOrZero(msg)>>]
              /\ out' = <<>> /\ calls' = <<>>
              /\ UNCHANGED peerName
          [] type = "ping" ->
              /\ out' = sendToPeerFrames(peerId, [Message("pong") EXCEPT !.ts = msg.ts])
              /\ calls' = <<>>
              /\ UNCHANGED <<latency, peerName>>
          [] OTHER ->
              /\ calls' = <<Call("onMessage", peerId, "", val)>>
              /\ out' = <<>>
              /\ UNCHANGED <<latency, peerName>>

\* ch.onmessage of a host-side channel: JSON.parse and the handler run under
\* one try, whose catch is empty.
\* Mutant of HostOnMessage: the handler without its try/catch, so that the
\* SyntaxError of JSON.parse leaves the handler.
HostOnMessageNoCatch(peerId, data) ==
    /\ isHost
    /\ chState[peerId] = "open"
    /\ IF ~data.json \/ data.val.shape = "null"
       THEN /\ out' = <<>> /\ calls' = <<>>
            /\ UNCHANGED <<latency, peerName>>
       ELSE HandleHostMessage(peerId, data.val)
    /\ lastOp' = Op("ch.onmessage", IF data.json THEN "ok" ELSE "SyntaxError")
    /\ UNCHANGED <<appVars, isHost, closed, regVars, offerVars, connVars, timerVars,
                   joinVars, cbVars, localName, now, state>>

HostOnMessage(peerId, data) ==
    /\ isHost
    /\ chState[peerId] = "open"
    /\ IF ~data.json \/ data.val.shape = "null"
       THEN /\ out' = <<>> /\ calls' = <<>>
            /\ UNCHANGED <<latency, peerName>>
       ELSE HandleHostMessage(peerId, data.val)
    /\ lastOp' = Op("ch.onmessage", "ok")
    /\ UNCHANGED <<appVars, isHost, closed, regVars, offerVars, connVars, timerVars,
                   joinVars, cbVars, localName, now, state>>

\* onPeerMessage(from, msg) of app.js.  On a sync or phase_change message:
\* applyHostState(msg.state), which throws on a message without a state.  On
\* a game_start message: the state is reset, the players, the category and
\* the role of the message are taken over.
onPeerMessageState(st, val) ==
    IF /\ val.typeKind = "string"
       /\ val.msg.type \in {"sync", "phase_change"}
       /\ val.msg.state # <<>>
    THEN applyHostState(st, val.msg.state[1])
    ELSE IF /\ val.typeKind = "string"
            /\ val.msg.type = "game_start"
            /\ val.msg.role # <<>>
    THEN applyRoleAssignment(
             setCategory(
                 addPlayers(
                     setLocalPlayerName(
                         setIsHost(setMode(fullReset(st), "online_peer"), FALSE),
                         localName),
                     val.msg.players),
                 val.msg.category),
             val.msg.role[1])
    ELSE st

\* _handlePeerMessage(msg).  The collaborator's onConnectedToHost is
\* onPeerConnectedToHost, which starts the ping loop; its onMessage is
\* onPeerMessage.
HandlePeerMessage(val) ==
    LET msg == val.msg
        type == IF val.typeKind = "string" THEN msg.type ELSE ""
    IN  CASE type = "welcome" ->
              /\ calls' = <<Call("onConnectedToHost", NoPeer, "", NoVal)>>
              /\ pingLive' = ClearedLive(pingTimer, pingLive) + 1
              /\ pingTimer' = TRUE
              /\ out' = <<>>
              /\ UNCHANGED <<latency, state>>
          [] type = "ping" ->
              /\ out' = sendToHostFrames([Message("pong") EXCEPT !.ts = msg.ts])
              /\ calls' = <<>>
              /\ UNCHANGED <<latency, state, pingLive, pingTimer>>
          [] type = "pong" ->
              /\ latency' = [latency EXCEPT ![NoPeer] = <<now - TsOrZero(msg)>>]
              /\ out' = <<>> /\ calls' = <<>>
              /\ UNCHANGED <<state, pingLive, pingTimer>>
          [] OTHER ->
              /\ calls' = <<Call("onMessage", NoPeer, "", val)>>
              /\ state' = onPeerMessageState(state, val)
              /\ out' = <<>>
              /\ UNCHANGED <<latency, pingLive, pingTimer>>

\* ch.onmessage of the joiner's channel.
PeerOnMessage(data) ==
    /\ ~isHost
    /\ hostChannel /\ hostCh = "open"
    /\ IF ~data.json \/ data.val.shape = "null"
       THEN /\ out' = <<>> /\ calls' = <<>>
            /\ UNCHANGED <<latency, state, pingLive, pingTimer>>
       ELSE HandlePeerMessage(data.val)
    /\ lastOp' = Op("hostChannel.onmessage", "ok")
    /\ UNCHANGED <<appVars, isHost, closed, regVars, offerVars, connVars, syncTimer,
                   syncLive, joinVars, cbVars, localName, now, peerName>>

\* sendToPeer(peerId, msg) and sendToHost(msg), called by the application.
SendToPeer(peerId, type) ==
    /\ isHost
    /\ out' = sendToPeerFrames(peerId, Message(type)) /\ calls' = <<>>
    /\ lastOp' = Op("sendToPeer", "ok")
    /\ UNCHANGED <<appVars, msgVars, isHost, closed, regVars, offerVars, connVars, timerVars,
                   joinVars, cbVars>>

SendToHost(type) ==
    /\ ~isHost
    /\ out' = sendToHostFrames(Message(type)) /\ calls' = <<>>
    /\ lastOp' = Op("sendToHost", "ok")
    /\ UNCHANGED <<appVars, msgVars, isHost, closed, regVars, offerVars, connVars, timerVars,
                   joinVars, cbVars>>

\* Time passes.
ClockTick ==
    /\ \E i \in 1..(Len(Times) - 1) : now = Times[i] /\ now' = Times[i + 1]
    /\ lastOp' = Op("clock", "ok")
    /\ out' = <<>> /\ calls' = <<>>
    /\ UNCHANGED <<appVars, localName, latency, peerName, state, isHost, closed, regVars,
                   offerVars, connVars, timerVars, joinVars, cbVars>>

(***************************************************************************)
(* The application (app.js): the handlers of the buttons and of the keys   *)
(* of input.js.  A button can be clicked while its screen is shown and it  *)
(* is not hidden; the confirm and back keys are handled on every screen    *)
(* when the focus is not in an input field.  index.html is not in src/:    *)
(* every screen but the menu is taken to have a .back-to-menu button.      *)
(* The handlers that several events share take the name the event is       *)
(* recorded under.                                                         *)
(***************************************************************************)
\* The values typed into the player name field, and the categories chosen.
PlayerInputs == {"ann", " ann", "bob", "cat"}
CategoryInputs == {"household", "animals"}

\* net.broadcast({type: 'phase_change', phase, state: serialiseForSync()})
\* under `state.mode === GameMode.ONLINE_HOST && net`.
PhaseFrames(st, phase) ==
    IF st.mode = "online_host" /\ ~closed
    THEN broadcastFrames(peers, [Message("phase_change") EXCEPT
                                     !.phase = phase,
                                     !.state = <<serialiseForSync(st)>>])
    ELSE <<>>

\* doRevealRole().  With no current word the property read of
\* revealCurrentRole() throws after the flag is set.
doRevealRole(op) ==
    LET info == revealCurrentRoleResult(state)
        throws == ~state.isRoleRevealed /\ state.currentWord = ""
    IN  /\ state' = revealCurrentRole(state)
        /\ call' = [fn |-> "revealCurrentRole", arg |-> <<>>,
                    res |-> IF throws THEN NoRole ELSE info]
        /\ el' = IF info # NoRole /\ ~throws
                 THEN [el EXCEPT !.nextPlayerBtn = TRUE] ELSE el
        /\ lastOp' = Op(op, IF throws THEN "TypeError" ELSE "ok")
        /\ out' = <<>>
        /\ UNCHANGED <<screen, chosen>>

\* doStartCluePhase() on the state st and the elements e.  With no player
\* getCurrentCluePlayer() is undefined and updateCluePhaseUI throws.
doStartCluePhase(op, st, start, e) ==
    LET st1 == startCluePhase(st, start) IN
    /\ state' = st1
    /\ IF st1.players = <<>>
       THEN /\ lastOp' = Op(op, "TypeError")
            /\ out' = <<>>
            /\ UNCHANGED <<el, screen>>
       ELSE /\ el' = [e EXCEPT !.clueNextBtn = (st1.mode = "local" \/ st1.isHost),
                               !.postDiscussionOpts = FALSE]
            /\ screen' = "discussion"
            /\ out' = PhaseFrames(st1, "CLUES")
            /\ lastOp' = Op(op, "ok")
    /\ call' = NoCall
    /\ UNCHANGED chosen

\* doNextPlayer()
doNextPlayer(op, start) ==
    LET st1 == nextRevealPlayer(state) IN
    IF st1.currentPlayerIndex < Len(st1.players)
    THEN /\ state' = st1
         /\ el' = [el EXCEPT !.nextPlayerBtn = FALSE]
         /\ lastOp' = Op(op, "ok")
         /\ out' = <<>>
         /\ call' = NoCall
         /\ UNCHANGED <<screen, chosen>>
    ELSE doStartCluePhase(op, st1, start, el)

\* doNextClueTurn(), with doStartDebate() after the last turn.
doNextClueTurn(op) ==
    LET st1 == nextClueTurn(state)
        more == st1.cluePlayerIndex < Len(st1.players)
        st2 == IF more THEN st1 ELSE startDebatePhase(st1)
    IN  /\ state' = st2
        /\ el' = IF more
                 THEN [el EXCEPT !.clueNextBtn = TRUE, !.postDiscussionOpts = FALSE]
                 ELSE [el EXCEPT !.clueNextBtn = FALSE, !.postDiscussionOpts = TRUE]
        /\ out' = (IF more THEN <<>> ELSE PhaseFrames(st2, "DEBATE"))
                      \o PhaseFrames(st2, st2.currentPhase)
        /\ lastOp' = Op(op, "ok")
        /\ call' = NoCall
        /\ UNCHANGED <<screen, chosen>>

\* The click handler of #start-new-game.
StartNewGameClick ==
    /\ screen = "menu"
    /\ state' = setMode(state, "local")
    /\ screen' = "setup"
    /\ lastOp' = Op("startNewGame", "ok")
    /\ out' = <<>> /\ calls' = <<>> /\ call' = NoCall
    /\ UNCHANGED <<el, chosen, started, wait, netVars>>

\* The click handler of the restart button of the results screen.
RestartClick ==
    /\ screen = "results"
    /\ screen' = "setup"
    /\ lastOp' = Op("restartGame", "ok")
    /\ out' = <<>> /\ calls' = <<>> /\ call' = NoCall
    /\ UNCHANGED <<state, el, chosen, started, wait, netVars>>

DoAddPlayer(str) ==
    /\ screen = "setup"
    /\ Len(state.players) < MaxPlayers
    /\ state' = addPlayer(state, str)
    /\ call' = [fn |-> "addPlayer", arg |-> <<str>>, res |-> <<addPlayerError(state, str)>>]
    /\ lastOp' = Op("doAddPlayer", "ok")
    /\ out' = <<>> /\ calls' = <<>>
    /\ UNCHANGED <<screen, el, chosen, started, wait, netVars>>

\* The remove callback of an entry of the setup screen's player list.
RemovePlayerClick(idx) ==
    /\ screen = "setup"
    /\ idx \in 0..(Len(state.players) - 1)
    /\ state' = removePlayer(state, idx)
    /\ lastOp' = Op("removePlayer", "ok")
    /\ out' = <<>> /\ calls' = <<>> /\ call' = NoCall
    /\ UNCHANGED <<screen, el, chosen, started, wait, netVars>>

\* doStartGame(): chosen takes the category and the word of a game that
\* starts.
DoStartGame(limit, cat, word, imp) ==
    /\ screen = "setup"
    /\ Len(chosen) < limit
    /\ LET st1 == setCategory(state, cat) IN
        /\ <<word, imp>> \in StartChoices(st1)
        /\ state' = startGame(st1, word, imp)
        /\ call' = [fn |-> "startGame", arg |-> <<>>, res |-> <<startGameError(st1)>>]
        /\ IF startGameError(st1) # ""
           THEN UNCHANGED <<screen, el, chosen>>
           ELSE /\ el' = [el EXCEPT !.nextPlayerBtn = FALSE]
                /\ screen' = "reveal"
                /\ chosen' = Append(chosen, [category |-> st1.category, word |-> word])
    /\ lastOp' = Op("doStartGame", "ok")
    /\ out' = <<>> /\ calls' = <<>>
    /\ UNCHANGED <<started, wait, netVars>>

\* The click handler of the reveal box.
RevealBoxClick ==
    /\ screen = "reveal"
    /\ doRevealRole("doRevealRole")
    /\ calls' = <<>>
    /\ UNCHANGED <<started, wait, netVars>>

\* The click handler of the next-player button.
NextPlayerClick(start) ==
    /\ screen = "reveal" /\ el.nextPlayerBtn
    /\ start \in RandomIndex(state)
    /\ doNextPlayer("doNextPlayer", start)
    /\ calls' = <<>>
    /\ UNCHANGED <<started, wait, netVars>>

\* The click handler of the next-clue button.
ClueNextClick ==
    /\ screen = "discussion" /\ el.clueNextBtn
    /\ doNextClueTurn("doNextClueTurn")
    /\ calls' = <<>>
    /\ UNCHANGED <<started, wait, netVars>>

\* doNextRound().  With no player updateCluePhaseUI throws.
DoNextRound(start) ==
    /\ screen = "discussion" /\ el.postDiscussionOpts
    /\ state.round < MaxRounds
    /\ start \in RandomIndex(state)
    /\ state' = nextRoundSameWord(state, start)
    /\ IF state.players = <<>>
       THEN /\ lastOp' = Op("doNextRound", "TypeError")
            /\ out' = <<>>
            /\ UNCHANGED el
       ELSE /\ el' = [el EXCEPT !.clueNextBtn = TRUE, !.postDiscussionOpts = FALSE]
            /\ out' = PhaseFrames(state', "CLUES")
            /\ lastOp' = Op("doNextRound", "ok")
    /\ calls' = <<>> /\ call' = NoCall
    /\ UNCHANGED <<screen, chosen, started, wait, netVars>>

DoFinishMission ==
    /\ screen = "discussion" /\ el.postDiscussionOpts
    /\ state' = endGame(state)
    /\ screen' = "results"
    /\ out' = PhaseFrames(state', "RESULTS")
    /\ lastOp' = Op("doFinishMission", "ok")
    /\ calls' = <<>> /\ call' = NoCall
    /\ UNCHANGED <<el, chosen, started, wait, netVars>>

DoToggleTimer ==
    /\ screen = "discussion"
    /\ state' = toggleTimer(state)
    /\ lastOp' = Op("doToggleTimer", "ok")
    /\ out' = <<>> /\ calls' = <<>> /\ call' = NoCall
    /\ UNCHANGED <<screen, el, chosen, started, wait, netVars>>

DoResetTimer ==
    /\ screen = "discussion"
    /\ state' = resetTimer(state)
    /\ lastOp' = Op("doResetTimer", "ok")
    /\ out' = <<>> /\ calls' = <<>> /\ call' = NoCall
    /\ UNCHANGED <<screen, el, chosen, started, wait, netVars>>

\* loop(ts) when a second of the running stopwatch has passed.
TimerTick ==
    /\ state.timerRunning
    /\ state.timerSeconds < MaxSeconds
    /\ state' = tickTimerSecond(state)
    /\ lastOp' = Op("loop", "ok")
    /\ out' = <<>> /\ calls' = <<>> /\ call' = NoCall
    /\ UNCHANGED <<screen, el, chosen, started, wait, netVars>>

\* handleConfirm(): the confirm keys and the gamepad's A button.
HandleConfirm(start) ==
    /\ start \in RandomIndex(state)
    /\ IF state.currentPhase = "REVEAL"
       THEN IF ~state.isRoleRevealed
            THEN doRevealRole("handleConfirm")
            ELSE doNextPlayer("handleConfirm", start)
       ELSE IF state.currentPhase = "CLUES"
       THEN doNextClueTurn("handleConfirm")
       ELSE /\ lastOp' = Op("handleConfirm", "ok")
            /\ out' = <<>> /\ call' = NoCall
            /\ UNCHANGED <<state, screen, el, chosen>>
    /\ calls' = <<>>
    /\ UNCHANGED <<started, wait, netVars>>

\* handleBack(): the back keys and the gamepad's B button.
HandleBack ==
    /\ state' = resetTimer(state)
    /\ screen' = "menu"
    /\ lastOp' = Op("handleBack", "ok")
    /\ out' = <<>> /\ calls' = <<>> /\ call' = NoCall
    /\ UNCHANGED <<el, chosen, started, wait, netVars>>

(***************************************************************************)
(* The next-state relations.  RegistryStep is the host's registry:         *)
(* invites, answers and the events of the connections; HostStep adds       *)
(* broadcast and close(); Step adds the timers and the joiner.  limit      *)
(* bounds the number of createOffer() calls.                               *)
(***************************************************************************)
LossStates == {"disconnected", "failed"}

RegistryStep(limit) ==
    \/ CreateOfferStart(limit)
    \/ \E p \in Ids : CreateOfferResume(p)
    \/ \E t \in BadTokens \cup AnswerTokens : AcceptAnswer(t)
    \/ \E p \in Ids, s \in {"connected"} \cup LossStates : IceStateChange(p, s)
    \/ \E p \in Ids : ChannelOpen(p)
    \/ \E p \in Ids : ChannelClosing(p)
    \/ \E p \in Ids : ChannelClose(p)
    \/ \E p \in Ids : ChannelError(p)

HostStep(limit) ==
    \/ RegistryStep(limit)
    \/ \E m \in AppFrames : Broadcast(m)
    \/ Close

LoopStep ==
    \/ StartPingLoop
    \/ StopPingLoop
    \/ StartSyncLoop
    \/ StopSyncLoop
    \/ PingTick
    \/ SyncTick

JoinStep ==
    \/ \E t \in BadTokens \cup OfferTokens : CreateAnswerStart(t)
    \/ CreateAnswerResume
    \/ \E s \in {"connected"} \cup LossStates : HostIceStateChange(s)
    \/ OnDataChannel
    \/ HostChannelOpen
    \/ HostChannelClose
    \/ HostChannelError

Step(limit) == HostStep(limit) \/ LoopStep \/ JoinStep

Next == Step(MaxPeers)

InitHost == Init /\ isHost

\* The host's registry with broadcast and close(), two invites.
Spec == InitHost /\ [][HostStep(MaxOffers)]_vars

\* The host's registry with broadcast, three invites, on a manager that is
\* not closed.
BroadcastStep ==
    \/ RegistryStep(MaxPeers)
    \/ \E m \in AppFrames : Broadcast(m)

SpecBroadcast == InitHost /\ [][BroadcastStep]_vars

\* Both roles with the timers, one invite.
SpecLoops == Init /\ [][Step(MaxLoopPeers)]_vars

\* The host's registry with the snapshot timer and a game that moves on, two
\* invites.
SyncStep ==
    \/ StartSyncLoop
    \/ StopSyncLoop
    \/ SyncTick
    \/ \E s \in Snapshots : HostPhaseChange(s)

SpecSync == InitHost /\ [][RegistryStep(MaxSyncPeers) \/ SyncStep]_vars

\* Both roles with the gathering wait in detail, two invites.
GatherStep ==
    \/ \E g \in GatheringStates : CreateOfferAwait(MaxGatherPeers, g)
    \/ \E p \in Ids : CreateOfferContinue(p)
    \/ \E t \in OfferTokens, g \in GatheringStates : CreateAnswerAwait(t, g)
    \/ CreateAnswerContinue
    \/ \E k \in Ids \cup {NoPeer}, s \in GatheringStates : IceGatheringStateChange(k, s)
    \/ \E k \in Ids \cup {NoPeer} : WaitTimeout(k)

SpecGather == Init /\ [][GatherStep]_vars

\* Timers fire and queued continuations run.
SpecGatherFair ==
    /\ SpecGather
    /\ \A k \in Ids \cup {NoPeer} : WF_vars(WaitTimeout(k))
    /\ \A p \in Ids : WF_vars(CreateOfferContinue(p))
    /\ WF_vars(CreateAnswerContinue)

(***************************************************************************)
(* Online play (app.js).  A session is followed from the lobby: the host   *)
(* has made its manager, and its joiners have connected and introduced     *)
(* themselves; a joiner has made its manager and its channel to the host   *)
(* is open.                                                                *)
(***************************************************************************)
\* The names the joiners of the lobby introduced themselves with.
LobbyNames == {"ann", "Ann", "bob"}

\* The state of a device that has chosen its role and given its name.
LobbyState(mode, str, ps) ==
    [InitialState EXCEPT !.mode = mode, !.isHost = (mode = "online_host"),
                         !.localPlayerName = str, !.onlinePeers = ps]

\* The host in its lobby after k joiners were connected one after another
\* and said hello with the names nm.
HostLobby(k, nm) ==
    /\ isHost = TRUE
    /\ closed = FALSE
    /\ localName = HostName
    /\ peers = [i \in 1..k |-> i]
    /\ pendingPeerId = IF k = 0 THEN NoPeer ELSE k
    /\ nextId = k
    /\ offerPc = [i \in Ids |-> IF i <= k THEN "returned" ELSE "idle"]
    /\ pcIce = [i \in Ids |-> IF i <= k THEN "connected" ELSE "none"]
    /\ chState = [i \in Ids |-> IF i <= k THEN "open" ELSE "none"]
    /\ remote = [i \in Ids |-> IF i <= k THEN i ELSE NoPeer]
    /\ peerName = [i \in Ids |-> IF i <= k THEN nm[i] ELSE ""]
    /\ hostPc = FALSE /\ hostChannel = FALSE /\ answerPc = "idle"
    /\ hostIce = "none" /\ hostCh = "none"
    /\ state = LobbyState("online_host", HostName,
                          [i \in 1..k |-> [id |-> i, name |-> nm[i], ready |-> FALSE]])
    /\ screen = "host-lobby"
    /\ lastOp = Op("onPeerConnected", "ok")

\* A joiner in its lobby: the channel to the host is open and hello is sent.
JoinLobby ==
    /\ isHost = FALSE
    /\ closed = FALSE
    /\ localName \in Names
    /\ peers = <<>>
    /\ pendingPeerId = NoPeer
    /\ nextId = 0
    /\ offerPc = [i \in Ids |-> "idle"]
    /\ pcIce = [i \in Ids |-> "none"]
    /\ chState = [i \in Ids |-> "none"]
    /\ remote = [i \in Ids |-> NoPeer]
    /\ peerName = [i \in Ids |-> ""]
    /\ hostPc = TRUE /\ hostChannel = TRUE /\ answerPc = "returned"
    /\ hostIce = "connected" /\ hostCh = "open"
    /\ state = LobbyState("online_peer", localName, <<>>)
    /\ screen = "join-lobby"
    /\ lastOp = Op("hostChannel.onopen", "ok")

\* What the two lobbies have in common.
LobbyRest ==
    /\ notified = [i \in Ids |-> 0]
    /\ pingTimer = FALSE /\ syncTimer = FALSE
    /\ pingLive = 0 /\ syncLive = 0
    /\ hostNotified = 0 /\ errors = 0
    /\ out = <<>> /\ calls = <<>>
    /\ now = Head(Times)
    /\ latency = [k \in Ids \cup {NoPeer} |-> <<>>]
    /\ el = InitialEl
    /\ call = NoCall
    /\ chosen = <<>>
    /\ started = FALSE
    /\ wait = [k \in Ids \cup {NoPeer} |-> NoWait]

InitHostLobby ==
    /\ \E k \in 0..MaxLobbyPeers : \E nm \in [1..k -> LobbyNames] : HostLobby(k, nm)
    /\ LobbyRest

InitJoinLobby == JoinLobby /\ LobbyRest

\* close() on the fields of the manager.
CloseManager ==
    /\ closed' = TRUE
    /\ pingLive' = ClearedLive(pingTimer, pingLive)
    /\ pingTimer' = FALSE
    /\ syncLive' = ClearedLive(syncTimer, syncLive)
    /\ syncTimer' = FALSE
    /\ chState' = [i \in Ids |->
                    IF MapHas(peers, i) THEN ChannelCloseCall(chState[i]) ELSE chState[i]]
    /\ pcIce' = [i \in Ids |->
                    IF MapHas(peers, i) THEN PcCloseCall(pcIce[i]) ELSE pcIce[i]]
    /\ peers' = <<>>
    /\ pendingPeerId' = NoPeer
    /\ hostCh' = IF hostChannel THEN ChannelCloseCall(hostCh) ELSE hostCh
    /\ hostIce' = IF hostPc THEN PcCloseCall(hostIce) ELSE hostIce
    /\ hostPc' = FALSE
    /\ hostChannel' = FALSE

\* The fields of the manager that close() writes, and the others.
closeVars == <<closed, timerVars, chState, pcIce, regVars, hostCh, hostIce, hostPc, hostChannel>>
keptVars == <<isHost, offerVars, remote, answerPc, cbVars, localName, now, latency, peerName>>

\* cleanupNet(): net is null when there is no manager or it was closed.
cleanupNet ==
    IF closed
    THEN out' = <<>> /\ UNCHANGED closeVars
    ELSE /\ out' = IF isHost
                   THEN broadcastFrames(peers, Message("disconnect"))
                   ELSE sendToHostFrames(Message("disconnect"))
         /\ CloseManager

\* The click handler of a .back-to-menu button.
BackToMenuClick ==
    /\ screen # "menu"
    /\ state' = resetTimer(state)
    /\ cleanupNet
    /\ screen' = "menu"
    /\ lastOp' = Op("backToMenu", "ok")
    /\ calls' = <<>> /\ call' = NoCall
    /\ UNCHANGED <<el, chosen, started, wait, keptVars>>

\* Array.prototype.indexOf
IndexOf(seq, x) ==
    IF \E i \in 1..Len(seq) : seq[i] = x
    THEN (CHOOSE i \in 1..Len(seq) : seq[i] = x /\ \A j \in 1..(i - 1) : seq[j] # x) - 1
    ELSE -1

\* Mutant of RoleOf: the word is in every role payload.
RoleOfWithWord(st, idx) ==
    [isImposter |-> idx = st.imposterIndex,
     word |-> st.currentWord,
     hint |-> IF idx = st.imposterIndex THEN Hint(st.currentWord) ELSE ""]

\* The role of the player with index idx in the game of st.
RoleOf(st, idx) ==
    [isImposter |-> idx = st.imposterIndex,
     word |-> IF idx = st.imposterIndex THEN "" ELSE st.currentWord,
     hint |-> IF idx = st.imposterIndex THEN Hint(st.currentWord) ELSE ""]

\* The game_start messages of doHostStartGame: one to each named peer whose
\* name is in the list of players.
RECURSIVE GameStartFrames(_, _)
GameStartFrames(ps, gs) ==
    IF ps = <<>> THEN <<>>
    ELSE (IF peerName[Head(ps)] # "" /\ IndexOf(gs.players, peerName[Head(ps)]) # -1
          THEN sendToPeerFrames(Head(ps),
                   [Message("game_start") EXCEPT
                       !.version = PROTOCOL_VERSION, !.players = gs.players,
                       !.category = gs.category,
                       !.role = <<RoleOf(gs, IndexOf(gs.players, peerName[Head(ps)]))>>])
          ELSE <<>>)
         \o GameStartFrames(Tail(ps), gs)

\* for (const [id, p] of net.peers) if (p.name) addOnlinePeer(id, p.name)
RECURSIVE addOnlinePeers(_, _)
addOnlinePeers(st, ps) ==
    IF ps = <<>> THEN st
    ELSE addOnlinePeers(IF peerName[Head(ps)] # ""
                        THEN addOnlinePeer(st, Head(ps), peerName[Head(ps)])
                        ELSE st,
                        Tail(ps))

\* The state doHostStartGame() calls startGame() in.
HostStartState(st, cat) ==
    addPlayers(
        addOnlinePeers(
            setCategory(
                setLocalPlayerName(
                    setIsHost(setMode(fullReset(st), "online_host"), TRUE),
                    localName),
                cat),
            peers),
        getOnlinePlayerNames(st))

\* doHostStartGame()
DoHostStartGame(cat, word, imp) ==
    /\ isHost /\ ~closed
    /\ screen = "host-lobby"
    /\ Len(chosen) < MaxGames
    /\ IF Len(getOnlinePlayerNames(state)) < 3
       THEN /\ word = "" /\ imp = -1
            /\ call' = NoCall
            /\ out' = <<>>
            /\ UNCHANGED <<state, screen, el, chosen, started, timerVars>>
       ELSE LET st1 == HostStartState(state, cat)
                gs == startGame(st1, word, imp)
            IN  /\ <<word, imp>> \in StartChoices(st1)
                /\ call' = [fn |-> "startGame", arg |-> <<>>,
                            res |-> <<startGameError(st1)>>]
                /\ IF startGameError(st1) # ""
                   THEN /\ state' = gs
                        /\ out' = <<>>
                        /\ UNCHANGED <<screen, el, chosen, started, timerVars>>
                   ELSE /\ out' = GameStartFrames(peers, gs)
                        /\ pingLive' = ClearedLive(pingTimer, pingLive) + 1
                        /\ pingTimer' = TRUE
                        /\ syncLive' = ClearedLive(syncTimer, syncLive) + 1
                        /\ syncTimer' = TRUE
                        /\ state' = resetOnlinePeerReady(
                                        applyRoleAssignment(gs,
                                            RoleOf(gs, IndexOf(gs.players,
                                                               gs.localPlayerName))))
                        /\ el' = [el EXCEPT !.onlineReadyBtn = FALSE]
                        /\ screen' = "online-reveal"
                        /\ chosen' = Append(chosen, [category |-> gs.category,
                                                     word |-> word])
                        /\ started' = TRUE
    /\ lastOp' = Op("doHostStartGame", "ok")
    /\ calls' = <<>>
    /\ UNCHANGED <<wait, isHost, closed, regVars, offerVars, connVars, joinVars, cbVars,
                   localName, now, latency, peerName>>

\* doOnlineReveal()
DoOnlineReveal ==
    /\ screen = "online-reveal"
    /\ state' = IF state.isRoleRevealed THEN state ELSE [state EXCEPT !.isRoleRevealed = TRUE]
    /\ el' = IF state.isRoleRevealed THEN el ELSE [el EXCEPT !.onlineReadyBtn = TRUE]
    /\ lastOp' = Op("doOnlineReveal", "ok")
    /\ out' = <<>> /\ calls' = <<>> /\ call' = NoCall
    /\ UNCHANGED <<screen, chosen, started, wait, netVars>>

\* The data the host's channel delivers to a joiner in a session: the
\* welcome, the start of the game with one of the roles, snapshots in sync
\* and phase_change messages, and the end of the session.
GameData ==
    { Data(TRUE, Envelope([Message("welcome") EXCEPT !.version = PROTOCOL_VERSION,
                                                     !.peerId = 1])) }
    \cup { Data(TRUE, Envelope([Message("game_start") EXCEPT
                                    !.version = PROTOCOL_VERSION,
                                    !.players = <<"hal", "ann", "bob">>,
                                    !.category = "food", !.role = <<r>>])) :
            r \in Roles }
    \cup { Data(TRUE, Envelope(SyncMessage(s))) : s \in Snapshots }
    \cup { Data(TRUE, Envelope([Message("phase_change") EXCEPT
                                    !.phase = s.currentPhase, !.state = <<s>>])) :
            s \in Snapshots }
    \cup { Data(TRUE, Envelope(Message(t))) : t \in {"lobby_update", "disconnect"} }

\* ch.onmessage of the joiner's channel for a welcome and for the messages
\* that reach onPeerMessage, with the application's onPeerConnectedToHost and
\* onPeerMessage.
OnPeerMessage(data) ==
    /\ ~isHost /\ ~closed
    /\ hostChannel /\ hostCh = "open"
    /\ LET msg == data.val.msg IN
        /\ calls' = <<Call(IF msg.type = "welcome" THEN "onConnectedToHost" ELSE "onMessage",
                           NoPeer, "", IF msg.type = "welcome" THEN NoVal ELSE data.val)>>
        /\ state' = onPeerMessageState(state, data.val)
        /\ started' = (started \/ msg.type = "game_start")
        /\ IF msg.type = "disconnect"
           THEN cleanupNet
           ELSE /\ out' = <<>>
                /\ pingLive' = IF msg.type = "welcome"
                               THEN ClearedLive(pingTimer, pingLive) + 1 ELSE pingLive
                /\ pingTimer' = (pingTimer \/ msg.type = "welcome")
                /\ UNCHANGED <<closed, syncTimer, syncLive, chState, pcIce, regVars,
                               hostCh, hostIce, hostPc, hostChannel>>
        /\ screen' = IF msg.type = "disconnect" THEN "menu"
                     ELSE IF msg.type = "game_start" THEN "online-reveal"
                     ELSE IF msg.type = "phase_change" /\ msg.phase \in {"CLUES", "DEBATE"}
                     THEN "discussion"
                     ELSE IF msg.type = "phase_change" /\ msg.phase = "RESULTS"
                     THEN "results"
                     ELSE screen
        /\ el' = IF msg.type = "phase_change" /\ msg.phase = "CLUES"
                 THEN [el EXCEPT !.clueNextBtn = FALSE, !.postDiscussionOpts = FALSE]
                 ELSE IF msg.type = "phase_change" /\ msg.phase = "DEBATE"
                 THEN [el EXCEPT !.clueNextBtn = FALSE, !.postDiscussionOpts = TRUE]
                 ELSE IF msg.type = "game_start"
                 THEN [el EXCEPT !.onlineReadyBtn = FALSE]
                 ELSE el
    /\ lastOp' = Op("hostChannel.onmessage", "ok")
    /\ call' = NoCall
    /\ UNCHANGED <<chosen, wait, keptVars>>

\* The handlers of the discussion and results screens.
DiscussionStep ==
    \/ ClueNextClick
    \/ \E start \in 0..(MaxPlayers - 1) : DoNextRound(start)
    \/ DoFinishMission
    \/ DoToggleTimer
    \/ DoResetTimer
    \/ TimerTick
    \/ RestartClick

\* An online session from the lobby on, on the host and on a joiner.
OnlineStep ==
    \/ \E cat \in {"animals"}, word \in UNION {Range(WordDatabase[c]) : c \in Categories} \cup {""},
          imp \in (-1)..(MaxPlayers - 1) : DoHostStartGame(cat, word, imp)
    \/ \E data \in GameData : OnPeerMessage(data)
    \/ DoOnlineReveal
    \/ PingTick
    \/ SyncTick
    \/ DiscussionStep
    \/ \E start \in 0..(MaxPlayers - 1) : HandleConfirm(start)
    \/ HandleBack
    \/ BackToMenuClick

SpecOnline == (InitHostLobby \/ InitJoinLobby) /\ [][OnlineStep]_vars

\* The page as loaded, before any game: no manager, the mode is local.
InitLocal == InitApp /\ ~isHost /\ localName = "ann"

\* Local pass-and-play: the setup and the reveal screen, and the keys.
LocalStep ==
    \/ StartNewGameClick
    \/ \E str \in PlayerInputs : DoAddPlayer(str)
    \/ \E idx \in 0..(MaxPlayers - 1) : RemovePlayerClick(idx)
    \/ \E cat \in CategoryInputs, word \in UNION {Range(WordDatabase[c]) : c \in Categories} \cup {""},
          imp \in (-1)..(MaxPlayers - 1) : DoStartGame(MaxLocalGames, cat, word, imp)
    \/ RevealBoxClick
    \/ \E start \in 0..(MaxPlayers - 1) : NextPlayerClick(start)
    \/ \E start \in 0..(MaxPlayers - 1) : HandleConfirm(start)
    \/ HandleBack

SpecLocal == InitLocal /\ [][LocalStep]_vars

\* Games started one after another in one session, locally and by a host.
StartStep ==
    \/ StartNewGameClick
    \/ \E str \in PlayerInputs : DoAddPlayer(str)
    \/ \E cat \in CategoryInputs, word \in UNION {Range(WordDatabase[c]) : c \in Categories} \cup {""},
          imp \in (-1)..(MaxPlayers - 1) : DoStartGame(MaxGames, cat, word, imp)
    \/ \E cat \in CategoryInputs, word \in UNION {Range(WordDatabase[c]) : c \in Categories} \cup {""},
          imp \in (-1)..(MaxPlayers - 1) : DoHostStartGame(cat, word, imp)
    \/ HandleBack

SpecStart == (InitLocal \/ InitHostLobby) /\ [][StartStep]_vars

\* The host's lobby with as many named joiners as the registry takes, and the
\* start of the game from it.
InitFullLobby ==
    /\ \E nm \in [1..MaxPeers -> LobbyNames] : HostLobby(MaxPeers, nm)
    /\ LobbyRest

HostStartStep ==
    \/ \E cat \in CategoryInputs, word \in UNION {Range(WordDatabase[c]) : c \in Categories} \cup {""},
          imp \in (-1)..MaxPeers : DoHostStartGame(cat, word, imp)
    \/ PingTick
    \/ SyncTick

SpecHostStart == InitFullLobby /\ [][HostStartStep]_vars

\* A local game from the setup of its players through reveal, clue rounds,
\* debate and results; players are added, none is removed.
CluesStep ==
    \/ StartNewGameClick
    \/ \E str \in PlayerInputs : DoAddPlayer(str)
    \/ \E cat \in {"animals"}, word \in UNION {Range(WordDatabase[c]) : c \in Categories} \cup {""},
          imp \in (-1)..(MaxPlayers - 1) : DoStartGame(MaxLocalGames, cat, word, imp)
    \/ RevealBoxClick
    \/ \E start \in 0..(MaxPlayers - 1) : NextPlayerClick(start)
    \/ \E start \in 0..(MaxPlayers - 1) : HandleConfirm(start)
    \/ HandleBack
    \/ DiscussionStep

SpecClues == InitLocal /\ [][CluesStep]_vars

(***************************************************************************)
(* The host's session from its lobby on: the readiness of the host and of  *)
(* the joiners, the loss of a joiner, the way back to the menu and to a    *)
(* new lobby.                                                              *)
(***************************************************************************)
\* state.onlinePeers.every(p => p.ready)
allPeersReady(st) == \A i \in 1..Len(st.onlinePeers) : st.onlinePeers[i].ready

\* checkAllReady() on the state st and the elements e.
checkAllReady(op, st, start, e) ==
    IF st.hostReady /\ allPeersReady(st)
    THEN doStartCluePhase(op, st, start, e)
    ELSE /\ state' = st
         /\ el' = e
         /\ lastOp' = Op(op, "ok")
         /\ out' = <<>> /\ call' = NoCall
         /\ UNCHANGED <<screen, chosen>>

\* doOnlineReady(): the click handler of #online-ready-btn, which
\* showOnlineRole displays and this handler disables.  When doStartCluePhase
\* throws, the button is not disabled.
DoOnlineReady(start) ==
    /\ screen = "online-reveal"
    /\ el.onlineReadyBtn /\ ~el.onlineReadyDisabled
    /\ start \in RandomIndex(state)
    /\ IF state.mode = "online_host"
       THEN checkAllReady("doOnlineReady", [state EXCEPT !.hostReady = TRUE], start,
                          [el EXCEPT !.onlineReadyDisabled = TRUE])
       ELSE /\ out' = IF closed THEN <<>>
                      ELSE sendToHostFrames([Message("ready") EXCEPT
                                                 !.name = state.localPlayerName])
            /\ el' = [el EXCEPT !.onlineReadyDisabled = TRUE]
            /\ lastOp' = Op("doOnlineReady", "ok")
            /\ call' = NoCall
            /\ UNCHANGED <<state, screen, chosen>>
    /\ calls' = <<>>
    /\ UNCHANGED <<started, wait, netVars>>

\* ch.onmessage of the host's channel to peerId for a ready message, with
\* onHostMessage.  A joiner on its reveal screen sends ready once: its click
\* disables its button.
OnHostMessageReady(peerId, start) ==
    /\ isHost /\ started
    /\ chState[peerId] = "open"
    /\ \E i \in 1..Len(state.onlinePeers) :
          state.onlinePeers[i].id = peerId /\ ~state.onlinePeers[i].ready
    /\ start \in RandomIndex(state)
    /\ checkAllReady("ch.onmessage", setOnlinePeerReady(state, peerId), start, el)
    /\ calls' = <<Call("onMessage", peerId, "",
                       Envelope([Message("ready") EXCEPT !.name = peerName[peerId]]))>>
    /\ UNCHANGED <<started, wait, netVars>>

\* ch.onclose of the host's channel to peerId, with _handlePeerDisconnect and
\* onHostPeerDisconnected.
OnHostPeerDisconnected(peerId) ==
    /\ isHost
    /\ chState[peerId] \in {"connecting", "open", "closing"}
    /\ HandlePeerDisconnect(peerId, pcIce, [chState EXCEPT ![peerId] = "closed"])
    /\ state' = IF MapHas(peers, peerId) THEN removeOnlinePeer(state, peerId) ELSE state
    /\ out' = IF MapHas(peers, peerId) /\ ~closed
              THEN broadcastFrames(MapDelete(peers, peerId), Message("lobby_update"))
              ELSE <<>>
    /\ lastOp' = Op("ch.onclose", "ok")
    /\ calls' = <<>>
    /\ UNCHANGED <<appVars, isHost, closed, pendingPeerId, offerVars, remote, timerVars,
                   joinVars, hostNotified, errors, localName, now, latency, peerName>>

\* The click handler of #multiplayer-btn.
MultiplayerClick ==
    /\ screen = "menu"
    /\ screen' = "multiplayer"
    /\ lastOp' = Op("multiplayer", "ok")
    /\ out' = <<>> /\ calls' = <<>> /\ call' = NoCall
    /\ UNCHANGED <<state, el, chosen, started, wait, netVars>>

\* The click handler of #host-game-btn.
HostGameClick ==
    /\ screen = "multiplayer"
    /\ isHost
    /\ state' = setIsHost(setMode(state, "online_host"), TRUE)
    /\ screen' = "host-lobby"
    /\ lastOp' = Op("hostGame", "ok")
    /\ out' = <<>> /\ calls' = <<>> /\ call' = NoCall
    /\ UNCHANGED <<el, chosen, started, wait, netVars>>

\* doGenerateOffer() up to the await of createOffer(): with net null a
\* manager is made, whose registry is empty and whose timers are not set.
DoGenerateOffer(limit) ==
    /\ isHost
    /\ screen = "host-lobby"
    /\ nextId < limit
    /\ state' = setLocalPlayerName(state, localName)
    /\ closed' = FALSE
    /\ LET peerId == generateId IN
        /\ nextId' = peerId
        /\ pcIce' = [pcIce EXCEPT ![peerId] = "new"]
        /\ chState' = [chState EXCEPT ![peerId] = "connecting"]
        /\ offerPc' = [offerPc EXCEPT ![peerId] = "gathering"]
    /\ lastOp' = Op("doGenerateOffer", "ok")
    /\ out' = <<>> /\ calls' = <<>>
    /\ UNCHANGED <<appVars, isHost, regVars, remote, timerVars, joinVars, cbVars,
                   localName, now, latency, peerName>>

ReadyStep ==
    \/ \E cat \in {"animals"}, word \in UNION {Range(WordDatabase[c]) : c \in Categories} \cup {""},
          imp \in (-1)..(MaxPlayers - 1) : DoHostStartGame(cat, word, imp)
    \/ DoOnlineReveal
    \/ \E start \in 0..(MaxPlayers - 1) : DoOnlineReady(start)
    \/ \E p \in Ids, start \in 0..(MaxPlayers - 1) : OnHostMessageReady(p, start)
    \/ \E p \in Ids : OnHostPeerDisconnected(p)
    \/ \E start \in 0..(MaxPlayers - 1) : HandleConfirm(start)
    \/ ClueNextClick

SpecReady == InitHostLobby /\ [][ReadyStep]_vars

\* The host's lobby, the menu and the lobby again, with a new manager.
RosterStep ==
    \/ \E cat \in {"animals"}, word \in UNION {Range(WordDatabase[c]) : c \in Categories} \cup {""},
          imp \in (-1)..(MaxPlayers - 1) : DoHostStartGame(cat, word, imp)
    \/ \E p \in Ids : OnHostPeerDisconnected(p)
    \/ BackToMenuClick
    \/ MultiplayerClick
    \/ HostGameClick
    \/ DoGenerateOffer(MaxPeers)
    \/ \E p \in Ids : CreateOfferResume(p)

SpecRoster == InitHostLobby /\ [][RosterStep]_vars

\* The reveal screen of the host: the game starts, the host and the joiners
\* look at their roles and get ready, joiners are lost.
WaitStep ==
    \/ \E cat \in {"animals"}, word \in UNION {Range(WordDatabase[c]) : c \in Categories} \cup {""},
          imp \in (-1)..(MaxPlayers - 1) : DoHostStartGame(cat, word, imp)
    \/ DoOnlineReveal
    \/ \E start \in 0..(MaxPlayers - 1) : DoOnlineReady(start)
    \/ \E p \in Ids, start \in 0..(MaxPlayers - 1) : OnHostMessageReady(p, start)
    \/ \E p \in Ids : OnHostPeerDisconnected(p)
    \/ PingTick
    \/ SyncTick

\* A timer of setInterval runs as long as it is set: the ping loop keeps
\* ticking.  What the players do and what the network delivers is not
\* required to happen.
SpecReadyFair == InitHostLobby /\ [][WaitStep]_vars /\ WF_vars(PingTick)

\* The frames the application sends to one peer and to the host.
PeerFrames == {"game_start"}
HostFrames == {"ready", "disconnect"}

MsgStep ==
    \/ \E p \in Ids, d \in FromPeer \cup NoEnvelope \cup {NotJson} : HostOnMessage(p, d)
    \/ \E d \in FromHost \cup NoEnvelope \cup {NotJson} : PeerOnMessage(d)
    \/ \E p \in Ids, m \in PeerFrames : SendToPeer(p, m)
    \/ \E m \in HostFrames : SendToHost(m)
    \/ ClockTick

\* Both roles with the message router, one invite.
SpecMsg ==
    Init /\ [][RegistryStep(MaxMsgPeers) \/ Close \/ JoinStep \/ PingTick \/ MsgStep]_vars

\* The host's registry with close() and the hellos of the joiners, two
\* invites.
HelloStep == \E p \in Ids, n \in Names : HostOnMessage(p, HelloData(n))

SpecHello == InitHost /\ [][RegistryStep(MaxHelloPeers) \/ Close \/ HelloStep]_vars

(***************************************************************************)
(* Properties.                                                             *)
(***************************************************************************)
\* A connectivity loss the host is told about on the connection of peer p.
LossEvent(p) ==
    \/ \E s \in LossStates : IceStateChange(p, s)
    \/ ChannelClose(p)
    \/ ChannelError(p)

\* The frames of a sequence that went to peer p.
FramesTo(fs, p) == Cardinality({i \in 1..Len(fs) : fs[i].to = p})

\* C1: on the host, a loss event for a peer whose record is in the registry
\* removes the record and calls onPeerDisconnected for it; whatever events
\* follow, the peer is notified exactly once and its record stays absent.
C1_DisconnectOnce ==
    [][\A p \in Ids :
        /\ notified'[p] <= 1
        /\ (MapHas(peers, p) /\ LossEvent(p))
              => (notified'[p] = 1 /\ ~MapHas(peers', p))
        /\ notified[p] = 1 => (notified'[p] = 1 /\ ~MapHas(peers', p))]_vars

\* A connected peer was lost, notified once, and its channel's close event
\* has been delivered too.
C1_Witness ==
    \E p \in Ids :
        /\ remote[p] = p /\ notified[p] = 1 /\ ~MapHas(peers, p)
        /\ chState[p] = "closed" /\ pcIce[p] = "closed"

\* C2: pendingPeerId is one id or null, and a createOffer() that returns
\* leaves its own peer id in it and its record in the registry: of two
\* invites made one after the other the second supersedes the first.
C2_SingleFlight ==
    [][/\ pendingPeerId' \in Ids \cup {NoPeer}
       /\ \A p \in Ids :
            (offerPc[p] = "gathering" /\ offerPc'[p] = "returned")
              => (pendingPeerId' = p /\ MapHas(peers', p))]_vars

\* Two invites were made in turn, no answer was applied, the second pends.
C2_Witness ==
    /\ peers = <<1, 2>> /\ pendingPeerId = 2
    /\ remote[1] = NoPeer /\ remote[2] = NoPeer
    /\ lastOp.name = "createOfferResume"

\* C3: once an answer was applied to a peer, that peer is not the pending
\* one any more (acceptAnswer cleared PendingSlot, and only a new
\* createOffer() fills it).
C3_AcceptClearsPending ==
    \A p \in Ids : remote[p] # NoPeer => pendingPeerId # p

\* No attempt pends: no invite was made since construction or close(), or the
\* pending peer was removed by a disconnect.
NoAttemptPending ==
    \/ pendingPeerId = NoPeer
    \/ notified[pendingPeerId] >= 1

\* C4: acceptAnswer() called while no attempt pends fails with the
\* no-pending-peer error and leaves the peer map, PendingSlot and the
\* connections alone.
C4_NoPendingFails ==
    [][(NoAttemptPending /\ lastOp'.name = "acceptAnswer")
          => /\ lastOp'.err = "NoPendingPeer"
             /\ UNCHANGED <<peers, pendingPeerId, connVars>>]_vars

\* acceptAnswer() failed that way on a pending peer a disconnect had removed.
C4_Witness ==
    /\ lastOp = Op("acceptAnswer", "NoPendingPeer")
    /\ pendingPeerId # NoPeer
    /\ notified[pendingPeerId] = 1

C6_CloseEmpties ==
    closed => (peers = <<>> /\ pendingPeerId = NoPeer)

\* C7: after close() no interval timer is live and no tick runs; the stop
\* methods and close() can be called in every state.
C7_TimersCancelled ==
    /\ closed => /\ pingLive = 0 /\ syncLive = 0
                 /\ ~pingTimer /\ ~syncTimer
                 /\ lastOp.name \notin {"pingTick", "syncTick"}
    /\ pingLive \in {0, 1} /\ syncLive \in {0, 1}
    /\ ENABLED StopPingLoop /\ ENABLED StopSyncLoop /\ ENABLED Close

\* A stop method was called on a manager that is closed.
C7_Witness ==
    closed /\ lastOp.name \in {"stopPingLoop", "stopSyncLoop"}

\* C8: on the joiner, onPeerDisconnected('host') is called once for one loss
\* of the connection: a further call comes only after the connection was
\* connected again.
C8_SingleHostNotification ==
    [][hostNotified' > hostNotified
          => (hostNotified = 0 \/ hostIce = "connected")]_vars

\* C9: on the host, every loss event on a live connection made by
\* createOffer() leaves the peer notified.
C9_LossSurfaced ==
    [][\A p \in Ids :
        (LossEvent(p) /\ pcIce[p] \notin {"none", "closed"})
            => notified'[p] >= 1]_vars

\* C10: broadcast(m) sends m once to every record whose channel is open and
\* to no other, and leaves the peer map, PendingSlot and the channels alone.
C10_BroadcastOpenOnly ==
    [][lastOp'.name = "broadcast"
          => /\ \A p \in Ids :
                  FramesTo(out', p) =
                      IF MapHas(peers, p) /\ chState[p] = "open" THEN 1 ELSE 0
             /\ \E m \in AppFrames : \A i \in 1..Len(out') : out'[i].type = m
             /\ lastOp'.err = "ok"
             /\ UNCHANGED <<peers, pendingPeerId, chState>>]_vars

\* Three records, one with a closed channel: the frame went to the other two.
C10_Witness ==
    /\ lastOp.name = "broadcast"
    /\ Len(peers) = 3 /\ Len(out) = 2
    /\ \E p \in Range(peers) : chState[p] = "closed"

\* C11: sendToPeer(p, m) sends m to p when p has a record whose channel is
\* open, and nothing otherwise; sendToHost(m) sends m when the channel to the
\* host is open, and nothing otherwise.  Neither fails nor changes anything
\* else, and nothing is kept for later: the step that opens a channel sends
\* nothing on the host, and on the joiner only the hello of the open handler.
C11_BestEffortSend ==
    [][/\ lastOp'.name = "sendToPeer" =>
            \A p \in Ids, m \in PeerFrames :
                SendToPeer(p, m)
                  => /\ out' = IF MapHas(peers, p) /\ chState[p] = "open"
                               THEN <<Frame(p, Message(m))>> ELSE <<>>
                     /\ lastOp'.err = "ok"
                     /\ UNCHANGED <<regVars, connVars, timerVars, joinVars, cbVars,
                                    msgVars>>
       /\ lastOp'.name = "sendToHost" =>
            \A m \in HostFrames :
                SendToHost(m)
                  => /\ out' = IF hostChannel /\ hostCh = "open"
                               THEN <<Frame(NoPeer, Message(m))>> ELSE <<>>
                     /\ lastOp'.err = "ok"
                     /\ UNCHANGED <<regVars, connVars, timerVars, joinVars, cbVars,
                                    msgVars>>
       /\ \A p \in Ids : (chState[p] # "open" /\ chState'[p] = "open") => out' = <<>>
       /\ (hostCh # "open" /\ hostCh' = "open")
              => \A i \in 1..Len(out') : out'[i].type = "hello"]_vars

\* sendToPeer() sent nothing while a record's channel was still connecting.
C11_Witness ==
    /\ lastOp.name = "sendToPeer" /\ out = <<>>
    /\ \E p \in Range(peers) : chState[p] = "connecting"

\* The hello a joiner announces itself with.
Hello == [Message("hello") EXCEPT !.version = PROTOCOL_VERSION, !.name = localName]

\* C12: on the joiner, the step that opens the channel to the host sends
\* exactly one message, the hello with the joiner's name and the protocol
\* version; a channel opens at most once, no other step sends a hello, and no
\* step sends anything while the channel has not been opened.
C12_HelloFirst ==
    [][~isHost =>
        /\ (hostCh # "open" /\ hostCh' = "open")
              => (hostCh = "connecting" /\ out' = <<Frame(NoPeer, Hello)>>)
        /\ hostCh' = "connecting" => hostCh \in {"none", "connecting"}
        /\ hostCh' # "open" => out' = <<>>
        /\ hostCh = "open" => \A i \in 1..Len(out') : out'[i].type # "hello"]_vars

\* The channel to the host has just opened and the hello went out.
C12_Witness ==
    /\ lastOp.name = "hostChannel.onopen"
    /\ hostCh = "open"
    /\ Len(out) = 1 /\ out[1].type = "hello" /\ out[1].name = localName

\* The frames of a sequence that have the given type.
OfType(fs, type) == SelectSeq(fs, LAMBDA f : f.type = type)

\* C13: when the host handles a hello from peer p, p has a record and an
\* answer was applied to its connection; the announced name is put on p's
\* record and on no other, one welcome with the protocol version and
\* peerId = p goes to p and none to another peer, and onPeerConnected(p, name)
\* is called once.  No other step calls onPeerConnected.
C13_HelloHandled ==
    [][/\ lastOp'.name = "ch.onmessage" =>
            \A p \in Ids, n \in Names :
                HostOnMessage(p, HelloData(n))
                  => /\ MapHas(peers, p) /\ remote[p] # NoPeer
                     /\ peerName' = [peerName EXCEPT ![p] = n]
                     /\ Len(OfType(out', "welcome")) = 1
                     /\ LET w == OfType(out', "welcome")[1] IN
                            /\ w.to = p /\ w.peerId = p
                            /\ w.version = PROTOCOL_VERSION
                     /\ calls' = <<Call("onPeerConnected", p, n, NoVal)>>
       /\ \A i \in 1..Len(calls') :
            calls'[i].cb = "onPeerConnected"
              => /\ lastOp'.name = "ch.onmessage"
                 /\ MapHas(peers, calls'[i].from)
                 /\ remote[calls'[i].from] # NoPeer]_vars

\* A hello was handled while two peers had open channels: one welcome, and
\* the name on the record.
C13_Witness ==
    /\ lastOp.name = "ch.onmessage"
    /\ Len(calls) = 1 /\ calls[1].cb = "onPeerConnected"
    /\ peerName[calls[1].from] = calls[1].name
    /\ Len(OfType(out, "welcome")) = 1
    /\ Len(peers) = 2 /\ \A p \in Range(peers) : chState[p] = "open"

\* The frames of a ping and of a pong with timestamp field ts.
PingData(ts) == Data(TRUE, Envelope([Message("ping") EXCEPT !.ts = ts]))

PongData(ts) == Data(TRUE, Envelope([Message("pong") EXCEPT !.ts = ts]))

\* C14: a ping with timestamp t0 is answered with one pong that carries t0,
\* sent to the sender only; a pong with timestamp t0 handled when the clock
\* reads t1 >= t0 stores t1 - t0 under the sender's key (the peer id on the
\* host, the host's key on the joiner) and changes no other entry; no other
\* step writes the latency table.
C14_Latency ==
    [][/\ lastOp'.name = "ch.onmessage" =>
            \A p \in Ids, ts \in TsValues :
                /\ HostOnMessage(p, PingData(ts))
                      => /\ out' = <<Frame(p, [Message("pong") EXCEPT !.ts = ts])>>
                         /\ latency' = latency
                /\ (HostOnMessage(p, PongData(ts)) /\ ts # <<>> /\ now >= ts[1])
                      => /\ latency' = [latency EXCEPT ![p] = <<now - ts[1]>>]
                         /\ now - ts[1] >= 0
                         /\ out' = <<>>
       /\ lastOp'.name = "hostChannel.onmessage" =>
            \A ts \in TsValues :
                /\ PeerOnMessage(PingData(ts))
                      => /\ out' = <<Frame(NoPeer, [Message("pong") EXCEPT !.ts = ts])>>
                         /\ latency' = latency
                /\ (PeerOnMessage(PongData(ts)) /\ ts # <<>> /\ now >= ts[1])
                      => /\ latency' = [latency EXCEPT ![NoPeer] = <<now - ts[1]>>]
                         /\ now - ts[1] >= 0
                         /\ out' = <<>>
       /\ latency' # latency
            => \/ \E p \in Ids, ts \in TsValues : HostOnMessage(p, PongData(ts))
               \/ \E ts \in TsValues : PeerOnMessage(PongData(ts))]_vars

\* The host handled at 1042 a pong that echoes 1000: the latency stored is 42.
C14_Witness ==
    /\ isHost /\ lastOp.name = "ch.onmessage"
    /\ now = 1042
    /\ \E p \in Range(peers) : latency[p] = <<42>>

\* C15: no message whose type is hello, welcome, ping or pong is handed to
\* the collaborator's onMessage, on the host or on the joiner.
C15_ControlIntercepted ==
    \A i \in 1..Len(calls) :
        calls[i].cb = "onMessage"
          => ~(calls[i].val.typeKind = "string" /\ calls[i].val.msg.type \in ControlTypes)

\* The well-formed frames whose type is no control type.
AppData(ds) == {d \in ds : d.val.typeKind = "string" /\ d.val.msg.type \notin ControlTypes}

C17_InvalidJsonDropped ==
    [][/\ lastOp'.name = "ch.onmessage" =>
            \A p \in Ids :
                HostOnMessage(p, NotJson)
                  => /\ lastOp'.err = "ok"
                     /\ calls' = <<>> /\ out' = <<>>
                     /\ UNCHANGED <<regVars, connVars, timerVars, cbVars, msgVars>>
                     /\ isHost' /\ chState'[p] = "open"
       /\ lastOp'.name = "hostChannel.onmessage" =>
            (PeerOnMessage(NotJson)
               => /\ lastOp'.err = "ok"
                  /\ calls' = <<>> /\ out' = <<>>
                  /\ UNCHANGED <<regVars, connVars, timerVars, joinVars, cbVars, msgVars>>
                  /\ ~isHost' /\ hostChannel' /\ hostCh' = "open")]_vars

\* The host's handler returned from a frame it could not decode: nothing was
\* called, sent or measured, and the channel it came on is open.
C17_Witness ==
    /\ isHost
    /\ lastOp = Op("ch.onmessage", "ok")
    /\ calls = <<>> /\ out = <<>>
    /\ \A k \in Ids : latency[k] = <<>>
    /\ \E p \in Range(peers) : chState[p] = "open"

\* C18: a frame that is JSON but has no string type field is not handed to
\* onMessage.
C18_NoEnvelopeDropped ==
    \A i \in 1..Len(calls) :
        calls[i].cb = "onMessage" => calls[i].val.typeKind = "string"

\* C19: a tick of the snapshot timer takes the snapshot of the state as it
\* is at the tick and sends every peer whose channel is open one sync message
\* with the protocol version, that snapshot and the checksum of its JSON
\* text; a peer whose channel is not open gets nothing.
C19_SyncTick ==
    [][lastOp'.name = "syncTick" =>
        LET s == serialiseForSync(state)
        IN  /\ \A i \in 1..Len(out') :
                  /\ out'[i].type = "sync"
                  /\ out'[i].version = PROTOCOL_VERSION
                  /\ out'[i].state = <<s>>
                  /\ out'[i].checksum = checksum(Stringify(s))
            /\ \A p \in Ids :
                  FramesTo(out', p) =
                      IF MapHas(peers, p) /\ chState[p] = "open" THEN 1 ELSE 0]_vars

\* A tick sent the snapshot of a game in its clue phase, with the checksum
\* 93ad821b of its JSON text, to the one peer of two whose channel is open.
C19_Witness ==
    /\ lastOp.name = "syncTick"
    /\ Len(out) = 1 /\ Len(peers) = 2
    /\ out[1].state # <<>> /\ out[1].state[1].currentPhase = "CLUES"
    /\ out[1].state[1] = serialiseForSync(state)
    /\ out[1].checksum = <<"9", "3", "a", "d", "8", "2", "1", "b">>

SharedFields ==
    {"players", "category", "currentPhase", "round", "currentPlayerIndex",
     "cluePlayerIndex", "startingPlayerIndex", "timerSeconds", "timerRunning"}

PrivateFields == {"localIsImposter", "localWord", "localHint"}

\* The frames of the host that carry a snapshot.
SnapshotData ==
    {d \in FromHost : d.val.msg.type \in {"sync", "phase_change"} /\ d.val.msg.state # <<>>}

\* C20: when the joiner has processed a sync or phase_change message, every
\* shared field of its state has the value of the message's snapshot, whatever
\* the state was and whatever checksum the message carries, and its private
\* role fields are as they were.
C20_ApplyUnconditionally ==
    [][lastOp'.name = "hostChannel.onmessage" =>
        \A d \in SnapshotData :
            PeerOnMessage(d)
              => /\ \A f \in SharedFields : state'[f] = d.val.msg.state[1][f]
                 /\ \A f \in PrivateFields : state'[f] = state[f]]_vars

\* A joiner that was handed the word has taken over the snapshot of a sync
\* message whose checksum is not the snapshot's.
C20_Witness ==
    /\ ~isHost
    /\ lastOp.name = "hostChannel.onmessage"
    /\ Len(calls) = 1
    /\ calls[1].val.msg.type = "sync"
    /\ calls[1].val.msg.checksum = BadChecksum
    /\ calls[1].val.msg.state # <<>>
    /\ serialiseForSync(state) = calls[1].val.msg.state[1]
    /\ state.currentPhase = "DEBATE"
    /\ state.localWord = "spoon"

\* The reference hash: h starts at 0, h = (h * 31 + c) mod 2^32 for each
\* character code c, on the halves of h.
RefStep(h, c) ==
    LET t == 31 * h[2] + c
    IN  <<(31 * h[1] + (t \div Half)) % Half, t % Half>>

RECURSIVE RefHash(_, _)
RefHash(str, n) == IF n = 0 THEN <<0, 0>> ELSE RefStep(RefHash(str, n - 1), str[n])

\* The unsigned value of the halves as lowercase hex digits.
RefHex(h) == StripZeros(Hex4(h[1]) \o Hex4(h[2]))

\* C22: for every string of the bound, checksum(str) is the reference hash of
\* str as lowercase hex; it depends on nothing but str, so a repeated call
\* gives the same digits.
C22_ChecksumIsReference ==
    call.fn = "checksum" => call.res = RefHex(RefHash(call.arg, Len(call.arg)))

\* checksum was called on a string whose hash wraps around and has its top
\* bit set: 8bd2ec61.
C22_Witness ==
    /\ call.fn = "checksum"
    /\ call.arg = <<65535, 65535, 97, 97, 97>>
    /\ call.res = <<"8", "b", "d", "2", "e", "c", "6", "1">>

\* C23: decoding the code encodeSDP made of a descriptor returns the object
\* {type, sdp} with the type and the sdp of that descriptor.
C23_CodecRoundTrip ==
    [][(call.fn = "encodeSDP" /\ call'.fn = "decodeSDP")
         => call'.res = Returned(DescObject(call.arg.type, call.arg.sdp))]_vars

\* The code of the offer whose sdp is a quote, U+00E9 and a carriage return
\* was decoded to that offer.
C23_Witness ==
    /\ call.fn = "decodeSDP"
    /\ call.arg = <<101, 121, 74, 48, 101, 88, 66, 108, 73, 106, 111, 105, 98, 50, 90, 109, 90, 88, 73, 105, 76, 67, 74, 122, 90, 72, 65, 105, 79, 105, 74, 99, 73, 115, 79, 112, 88, 72, 73, 105, 102, 81, 61, 61>>
    /\ call.res = Returned(DescObject(OfferText, <<34, 233, 13>>))

\* A JSON value that has the shape of a descriptor: an object with a string
\* type and a string sdp.
IsDescriptor(v) ==
    /\ v.kind = "object"
    /\ \E i \in 1..Len(v.items) : v.items[i].key = TypeKey /\ v.items[i].val.kind = "string"
    /\ \E i \in 1..Len(v.items) : v.items[i].key = SdpKey /\ v.items[i].val.kind = "string"

\* C24: decodeSDP throws unless the text is the code of a descriptor; it
\* returns no value that is not a descriptor.
C24_DecodeRejectsNonDescriptors ==
    call.fn = "decodeSDP" => (call.res.threw \/ IsDescriptor(call.res.val))

\* The call of a connection is suspended in the gathering wait.
InWait(k) == IF k = NoPeer THEN answerPc = "gathering" ELSE offerPc[k] = "gathering"

\* The call of a connection has returned its code.
CodeReturned(k) ==
    IF k = NoPeer
    THEN answerPc = "returned"
    ELSE /\ offerPc[k] = "returned"

\* C25: a call suspended in the gathering wait is resumed, whether or not
\* gathering ever completes, and no call is resumed twice; the resumed call
\* hands out the code of the connection's descriptor, and createOffer() puts
\* the record in the registry and makes it the pending one.
C25_WaitEnds ==
    /\ \A k \in Ids \cup {NoPeer} : InWait(k) ~> (CodeReturned(k) /\ wait[k].resumes = 1)
    /\ [][\A k \in Ids \cup {NoPeer} :
            /\ wait'[k].resumes <= 1
            /\ wait'[k].resumes > wait[k].resumes
                 => /\ InWait(k) /\ CodeReturned(k)'
                    /\ call'.arg = k /\ call'.res.val.shape = "desc"
                    /\ call'.res.val.sdp = k
                    /\ k # NoPeer => (MapHas(peers', k) /\ pendingPeerId' = k)]_vars

\* A createOffer() call was resumed by the timeout on a connection whose
\* gathering is not complete, and its record is the pending one.
C25_Witness ==
    \E p \in Ids :
        /\ wait[p].resumes = 1 /\ wait[p].gathering # "complete"
        /\ ~wait[p].timer /\ wait[p].listener
        /\ offerPc[p] = "returned" /\ pendingPeerId = p /\ MapHas(peers, p)
        /\ call.fn = "createOffer" /\ call.arg = p

\* C21: no timer of the manager is set and no ping or sync message is sent
\* before the game has started (on a joiner: before game_start has arrived),
\* and a joiner sets no snapshot timer and sends no sync message.
C21_TimersAfterStart ==
    /\ (pingTimer \/ syncTimer) => started
    /\ syncTimer => isHost
    /\ \A i \in 1..Len(out) :
        /\ out[i].type \in {"ping", "sync"} => started
        /\ out[i].type = "sync" => isHost

\* The shared fields the host alone is to write.
WriterFields ==
    {"currentPhase", "round", "currentPlayerIndex", "cluePlayerIndex",
     "startingPlayerIndex", "timerSeconds", "timerRunning"}

\* C26: on a joiner a step changes a shared field of the state only when it
\* is the handling of a message of the host; the frame loop, which counts
\* the seconds of a running stopwatch, is no action of the user and is left
\* aside.
C26_HostSingleWriter ==
    [][(~isHost /\ \E f \in WriterFields : state'[f] # state[f])
          => lastOp'.name \in {"hostChannel.onmessage", "loop"}]_vars

\* The names of a list that addPlayer() takes.
UsableNames(strs) == {toLowerCase(trim(strs[i])) : i \in 1..Len(strs)} \ {""}

\* The state holds a game that has started.
CompleteGame(st) ==
    /\ st.currentPhase = "REVEAL"
    /\ Len(st.players) >= 3
    /\ st.currentWord # ""
    /\ st.imposterIndex \in 0..(Len(st.players) - 1)

\* C27: a startGame() call with fewer than 3 players returns an error and
\* leaves the phase, the word, the imposter, the round and the used words as
\* they were, and a host start
\* with fewer than 3 usable distinct names in the lobby leaves the state as
\* it was or leaves a game that has started.
C27_StartNeedsThree ==
    [][/\ (lastOp'.name = "doStartGame" /\ Len(state.players) < 3)
            => /\ call'.res # <<"">>
               /\ \A f \in {"currentPhase", "currentWord", "imposterIndex", "round",
                             "usedWords"} : state'[f] = state[f]
       /\ (lastOp'.name = "doHostStartGame"
             /\ Cardinality(UsableNames(getOnlinePlayerNames(state))) < 3)
            => (state' = state \/ CompleteGame(state'))]_vars

\* C28: among the games of a session, a game has the word of an earlier game
\* of the same category only if every word of the category was the word of
\* a game before it.
C28_NoRepeatBeforeCycle ==
    \A i, j \in 1..Len(chosen) :
        (i < j /\ chosen[i].category = chosen[j].category
               /\ chosen[i].word = chosen[j].word)
          => \A w \in Range(WordDatabase[chosen[j].category]) :
                \E k \in 1..(j - 1) :
                    chosen[k].category = chosen[j].category /\ chosen[k].word = w

C30_MenuTimerStopped ==
    screen = "menu" => (~state.timerRunning /\ state.timerSeconds = 0)

\* C38: a manager has at most one live interval of each timer, and the handle
\* it holds is that of the live interval; a start call leaves exactly one
\* live interval whatever was running before, and one tick sends a peer (on a
\* joiner: the host) at most one ping or one sync message.
C38_OneTimerEach ==
    [][/\ pingLive' \in {0, 1} /\ syncLive' \in {0, 1}
       /\ pingTimer' = (pingLive' = 1) /\ syncTimer' = (syncLive' = 1)
       /\ lastOp'.name = "startPingLoop" => pingLive' = 1
       /\ lastOp'.name = "startSyncLoop" => syncLive' = 1
       /\ lastOp'.name \in {"pingTick", "syncTick"}
            => /\ \A p \in Ids : FramesTo(out', p) <= 1
               /\ ~isHost => Len(out') <= 1
               /\ \A i \in 1..Len(out') :
                    out'[i].type = (IF lastOp'.name = "pingTick" THEN "ping" ELSE "sync")]_vars

\* A tick of the probe timer of a host that has both timers running sent its
\* one peer one ping.
C38_Witness ==
    /\ lastOp.name = "pingTick" /\ isHost
    /\ pingTimer /\ syncTimer /\ pingLive = 1 /\ syncLive = 1
    /\ Len(out) = 1 /\ out[1].type = "ping"

\* C36: an acceptAnswer() call that succeeds makes the answer the remote
\* description of the connection the pending slot names at the call, which
\* has a record and had no remote description, whichever offer the answer
\* was generated from, and of no other connection; a call that fails leaves
\* every remote description as it was.
C36_AnswerToPending ==
    [][lastOp'.name = "acceptAnswer" =>
        IF lastOp'.err = "ok"
        THEN /\ MapHas(peers, pendingPeerId)
             /\ remote[pendingPeerId] = NoPeer
             /\ \E q \in Ids : /\ offerPc[q] = "returned"
                               /\ remote' = [remote EXCEPT ![pendingPeerId] = q]
        ELSE remote' = remote]_vars

\* C36 as stated: the answer that is the remote description of a connection
\* of the host was generated from the offer of that connection.
C36_AnswerMatchesOffer ==
    \A p \in Ids : remote[p] \in {NoPeer, p}

\* The answer made for the first invite was applied to the connection of the
\* second invite, which had superseded it.
C36_Witness ==
    /\ lastOp = Op("acceptAnswer", "ok")
    /\ pendingPeerId = 2 /\ remote[2] = 1 /\ remote[1] = NoPeer
    /\ MapHas(peers, 1) /\ MapHas(peers, 2)

\* C37: the continuation of a createOffer() call puts the call's record in
\* the registry, keeps the records that are there, and leaves the pending
\* slot naming that call: the call that completed last, whose code was
\* handed out last, whichever call was started last.
C37_PendingIsLastCompleted ==
    [][lastOp'.name = "createOfferResume" =>
        \E p \in Ids :
            /\ offerPc[p] = "gathering" /\ offerPc'[p] = "returned"
            /\ \A q \in Ids \ {p} : offerPc'[q] = offerPc[q]
            /\ pendingPeerId' = p
            /\ MapHas(peers', p)
            /\ \A q \in Ids : MapHas(peers, q) => MapHas(peers', q)]_vars

\* C37 as stated: when the last of the createOffer() calls under way
\* completes, the pending slot names the call that was started last.
C37_PendingIsLastStarted ==
    [][(lastOp'.name = "createOfferResume"
          /\ \A q \in Ids : offerPc'[q] # "gathering")
          => pendingPeerId' = nextId']_vars

\* Two calls overlapped and the one started first completed last: both
\* records are in the registry and the pending slot names the first.
C37_Witness ==
    /\ lastOp.name = "createOfferResume"
    /\ nextId = 2 /\ pendingPeerId = 1
    /\ offerPc[1] = "returned" /\ offerPc[2] = "returned"
    /\ MapHas(peers, 1) /\ MapHas(peers, 2)

\* C31: of the frames a host sends, only game_start carries a role; a frame
\* with a snapshot carries the shared fields only, and the snapshot is the
\* same whatever the word and the imposter are; the role in a game_start is
\* the role of the peer it is sent to, without the word for the imposter and
\* without the hint for the others.
C31_SecretsStayHome ==
    [][isHost =>
        \A i \in 1..Len(out') :
            LET f == out'[i] IN
            IF f.type = "game_start"
            THEN /\ f.state = <<>> /\ f.role # <<>>
                 /\ f.role[1] = RoleOf(state', IndexOf(state'.players, peerName[f.to]))
                 /\ f.role[1].isImposter => f.role[1].word = ""
                 /\ ~f.role[1].isImposter => f.role[1].hint = ""
            ELSE /\ f.role = <<>>
                 /\ f.state # <<>> =>
                      /\ DOMAIN f.state[1] = SharedFields
                      /\ \A c \in Categories, j \in (-1)..(MaxPlayers - 1) :
                           \A k \in 1..Len(WordDatabase[c]) :
                             f.state[1] = serialiseForSync(
                                 [state' EXCEPT !.currentWord = WordDatabase[c][k],
                                                !.imposterIndex = j])]_vars

\* The host started a game with two joiners: the first was sent the hint
\* and no word, the second the word and no hint.
C31_Witness ==
    /\ lastOp.name = "doHostStartGame" /\ started
    /\ Len(out) = 2
    /\ out[1].type = "game_start" /\ out[2].type = "game_start"
    /\ out[1].role[1].isImposter /\ out[1].role[1].word = ""
    /\ out[1].role[1].hint # ""
    /\ ~out[2].role[1].isImposter /\ out[2].role[1].hint = ""
    /\ out[2].role[1].word = state.currentWord

\* C32: when the host starts a game, every peer of the registry with an open
\* channel and a name is sent exactly one game_start, and exactly one of the
\* role payloads, the host's own and those sent, is the imposter's.
C32_OneRoleEach ==
    [][(lastOp'.name = "doHostStartGame" /\ started' /\ ~started) =>
        /\ \A p \in Ids :
              (MapHas(peers, p) /\ chState[p] = "open" /\ peerName[p] # "")
                => Cardinality({i \in 1..Len(out') :
                                   out'[i].to = p /\ out'[i].type = "game_start"}) = 1
        /\ Cardinality({i \in 1..Len(out') : out'[i].role[1].isImposter})
             + (IF state'.localIsImposter THEN 1 ELSE 0) = 1]_vars

C33_CluesOnlyWhenAllReady ==
    [][(state.mode = "online_host" /\ started)
         => /\ (state.currentPhase = "REVEAL" /\ state'.currentPhase = "CLUES")
                 => /\ lastOp'.name \in {"doOnlineReady", "ch.onmessage"}
                    /\ state'.hostReady
                    /\ allPeersReady(state')
            /\ (state.currentPhase # "REVEAL"
                  /\ lastOp'.name \in {"handleConfirm", "ch.onmessage"})
                 => /\ state'.currentPhase = "CLUES" => state.currentPhase = "CLUES"
                    /\ state'.cluePlayerIndex >= state.cluePlayerIndex
                    /\ state'.startingPlayerIndex = state.startingPlayerIndex]_vars

\* The host's game waits on the reveal screen with nobody's readiness
\* missing.
ReadyAndWaiting ==
    /\ isHost /\ ~closed /\ started
    /\ screen = "online-reveal"
    /\ state.currentPhase = "REVEAL"
    /\ state.hostReady /\ allPeersReady(state)

\* C34: when the host is ready and every peer of the roster is ready, the
\* game gets to the clue phase, unless the host leaves the reveal screen or
\* ends the session.
C34_ReadyLeadsToClues ==
    ReadyAndWaiting ~> (state.currentPhase = "CLUES" \/ screen # "online-reveal" \/ closed)

\* C35: on the host every entry of the roster has the id of a record in the
\* registry of a manager that is not closed.
C35_RosterInRegistry ==
    isHost => \A i \in 1..Len(state.onlinePeers) :
                  ~closed /\ MapHas(peers, state.onlinePeers[i].id)

====
